---- MODULE Spec2Model ----
(***************************************************************************)
(* A model of the MojoShader preprocessor (mojoshader_preprocessor.c):     *)
(* the define table, the filename cache, the include stack, the            *)
(* conditional stack, the directive handlers and the token-stream API.     *)
(*                                                                         *)
(* Bytes are one-character strings, C strings and buffers are sequences of *)
(* bytes, offsets into a buffer count from 0 (the next byte to read at     *)
(* offset p is buf[p + 1]).  A linked list is a sequence, head first.      *)
(***************************************************************************)
EXTENDS Integers, Sequences, FiniteSets, TLC

VARIABLES input, ctx, ret, out, pc, preprocessData

vars == <<input, ctx, ret, out, pc, preprocessData>>

----------------------------------------------------------------------------
(* Bounds of the model. *)

\* longest root source, in lines, of the conditional-directive family
MaxCondLines == 4

\* longest root source, in lines, of the general-directive family
MaxDirLines == 2

\* allocation failure is injected at the k-th Malloc, k up to this
MaxFailAt == 8

\* longest root source, in lines, of the flatten family
MaxFlatLines == 4

\* next-token calls followed once the include stack is empty
MaxEoiCalls == 3

\* longest sequence of operations applied to the define table on its own
MaxTableOps == 3

\* deepest include stack the model follows: a stack deeper than this has
\* some file on it twice
MaxIncludeDepth == 4

----------------------------------------------------------------------------
(* Bytes. *)

NULL == <<"NULL">>

UpperCase == <<"A","B","C","D","E","F","G","H","I","J","K","L","M",
               "N","O","P","Q","R","S","T","U","V","W","X","Y","Z">>

LowerCase == <<"a","b","c","d","e","f","g","h","i","j","k","l","m",
               "n","o","p","q","r","s","t","u","v","w","x","y","z">>

Digits == <<"0","1","2","3","4","5","6","7","8","9">>

Range(f) == {f[i] : i \in DOMAIN f}

Letters == Range(UpperCase) \cup Range(LowerCase) \cup {"_"}

DigitSet == Range(Digits)

\* the value of a byte of an identifier (ASCII)
Ord(ch) ==
  IF ch \in Range(UpperCase)
    THEN 64 + (CHOOSE i \in 1..26 : UpperCase[i] = ch)
  ELSE IF ch \in Range(LowerCase)
    THEN 96 + (CHOOSE i \in 1..26 : LowerCase[i] = ch)
  ELSE IF ch \in DigitSet
    THEN 47 + (CHOOSE i \in 1..10 : Digits[i] = ch)
  ELSE IF ch = "_" THEN 95
  ELSE 32

\* atoi() of a string of decimal digits
RECURSIVE atoi(_)
atoi(s) ==
  IF s = <<>> THEN 0
  ELSE 10 * atoi(SubSeq(s, 1, Len(s) - 1))
       + ((CHOOSE i \in 1..10 : Digits[i] = s[Len(s)]) - 1)

----------------------------------------------------------------------------
(* The lexer, preprocessor_internal_lexer, on one include frame.  It reads *)
(* the bytes [source, source + bytes_left) of the frame, returns the tag of *)
(* the next lexeme, leaves source just past the lexeme and token at its    *)
(* first byte, takes the consumed bytes off bytes_left and counts the      *)
(* newlines it consumed into line.                                         *)

\* first offset q >= p with q = lim or buf[q + 1] \notin S
ScanWhile(buf, p, lim, S) ==
  IF \A q \in p..(lim - 1) : buf[q + 1] \in S THEN (IF p < lim THEN lim ELSE p)
  ELSE CHOOSE q \in p..(lim - 1) :
         buf[q + 1] \notin S /\ \A r \in p..(q - 1) : buf[r + 1] \in S

\* first offset q >= p with q = lim or buf[q + 1] \in S
ScanUntil(buf, p, lim, S) ==
  IF \A q \in p..(lim - 1) : buf[q + 1] \notin S THEN (IF p < lim THEN lim ELSE p)
  ELSE CHOOSE q \in p..(lim - 1) :
         buf[q + 1] \in S /\ \A r \in p..(q - 1) : buf[r + 1] \notin S

\* offset of the "*" of the first "*/" at or after p, or lim when there is none
RECURSIVE FindCommentEnd(_, _, _)
FindCommentEnd(buf, p, lim) ==
  IF p + 1 >= lim THEN lim
  ELSE IF buf[p + 1] = "*" /\ buf[p + 2] = "/" THEN p
  ELSE FindCommentEnd(buf, p + 1, lim)

\* number of newline bytes in buf[from + 1 .. to]
CountNewlines(buf, from, to) ==
  Cardinality({i \in (from + 1)..to : buf[i] = "\n"})

\* whitespace and comments before a lexeme: the offset reached, the newlines
\* consumed on the way, and whether a comment was left open
RECURSIVE SkipBlank(_, _, _, _)
SkipBlank(buf, p, lim, nls) ==
  IF p >= lim THEN [p |-> p, nls |-> nls, incomplete |-> FALSE]
  ELSE IF buf[p + 1] \in {" ", "\t", "\r"} THEN SkipBlank(buf, p + 1, lim, nls)
  ELSE IF buf[p + 1] = "/" /\ p + 1 < lim /\ buf[p + 2] = "/"
    THEN SkipBlank(buf, ScanUntil(buf, p + 2, lim, {"\n"}), lim, nls)
  ELSE IF buf[p + 1] = "/" /\ p + 1 < lim /\ buf[p + 2] = "*"
    THEN LET e == FindCommentEnd(buf, p + 2, lim)
         IN IF e = lim
              THEN [p |-> lim, nls |-> nls + CountNewlines(buf, p, lim),
                    incomplete |-> TRUE]
              ELSE SkipBlank(buf, e + 2, lim, nls + CountNewlines(buf, p, e))
  ELSE [p |-> p, nls |-> nls, incomplete |-> FALSE]

\* only whitespace lies between the start of the line and offset p
RECURSIVE AtLineStart(_, _)
AtLineStart(buf, p) ==
  IF p = 0 THEN TRUE
  ELSE IF buf[p] = "\n" THEN TRUE
  ELSE IF buf[p] \in {" ", "\t", "\r"} THEN AtLineStart(buf, p - 1)
  ELSE FALSE

\* the directive keywords
DirectiveToken(name) ==
  CASE name = <<"i","n","c","l","u","d","e">> -> "PP_INCLUDE"
    [] name = <<"l","i","n","e">> -> "PP_LINE"
    [] name = <<"d","e","f","i","n","e">> -> "PP_DEFINE"
    [] name = <<"u","n","d","e","f">> -> "PP_UNDEF"
    [] name = <<"i","f">> -> "PP_IF"
    [] name = <<"i","f","d","e","f">> -> "PP_IFDEF"
    [] name = <<"i","f","n","d","e","f">> -> "PP_IFNDEF"
    [] name = <<"e","l","s","e">> -> "PP_ELSE"
    [] name = <<"e","l","i","f">> -> "PP_ELIF"
    [] name = <<"e","n","d","i","f">> -> "PP_ENDIF"
    [] name = <<"e","r","r","o","r">> -> "PP_ERROR"
    [] OTHER -> "UNKNOWN"

\* the tag of the lexeme starting at offset p < lim and the offset just past it
Classify(buf, p, lim) ==
  LET ch == buf[p + 1] IN
  IF ch = "\n" THEN [token |-> "\n", end |-> p + 1]
  ELSE IF ch \in Letters
    THEN [token |-> "IDENTIFIER",
          end |-> ScanWhile(buf, p + 1, lim, Letters \cup DigitSet)]
  ELSE IF ch \in DigitSet
    THEN [token |-> "INT_LITERAL", end |-> ScanWhile(buf, p + 1, lim, DigitSet)]
  ELSE IF ch = "\""
    THEN LET q == ScanUntil(buf, p + 1, lim, {"\"", "\n"})
         IN IF q < lim /\ buf[q + 1] = "\""
              THEN [token |-> "STRING_LITERAL", end |-> q + 1]
              ELSE [token |-> "BAD_CHARS", end |-> q]
  ELSE IF ch = "#" /\ AtLineStart(buf, p)
    THEN LET q == ScanWhile(buf, p + 1, lim, {" ", "\t"})
             e == ScanWhile(buf, q, lim, Letters \cup DigitSet)
         IN IF e = q THEN [token |-> "#", end |-> p + 1]
            ELSE [token |-> DirectiveToken(SubSeq(buf, q + 1, e)), end |-> e]
  ELSE [token |-> ch, end |-> p + 1]

\* update_state and the return: [token, state]
LexReturn(s, token, start, end, nls) ==
  [token |-> token,
   state |-> [s EXCEPT !.bytes_left = @ - (end - s.source),
                       !.source = end,
                       !.token = start,
                       !.line = @ + nls]]

\* the lexeme at sk.p, classified as cl
LexClassified(s, sk, cl) ==
  LexReturn(s, cl.token, sk.p, cl.end,
            sk.nls + (IF cl.token = "\n" THEN 1 ELSE 0))

\* the lexer after the blank sk before the lexeme; lim is the end of input
LexAfterBlank(s, lim, sk) ==
  IF sk.incomplete THEN LexReturn(s, "INCOMPLETE_COMMENT", s.source, lim, sk.nls)
  ELSE IF sk.p >= lim THEN LexReturn(s, "EOI", sk.p, sk.p, sk.nls)
  ELSE LexClassified(s, sk, Classify(s.mem, sk.p, lim))

preprocessor_internal_lexer(s) ==
  LexAfterBlank(s, s.source + s.bytes_left,
                SkipBlank(s.mem, s.source, s.source + s.bytes_left, 0))

----------------------------------------------------------------------------
(* Allocator and failure latch. *)

\* Malloc: the allocator fails at the malloc_data.failAt-th call (0: never),
\* and from then on when malloc_data.sticky; a pointer is the serial number
\* of the allocation, 0 the null pointer.  malloc_data also says what the
\* allocator gives for a request of zero bytes (zero_null: the null pointer)
\* and what this build does on a read through the null pointer (null_read)
AllocFails(d, n) ==
  d.failAt # 0 /\ (n = d.failAt \/ (d.sticky /\ n > d.failAt))

Malloc(c) ==
  [ptr |-> IF AllocFails(c.malloc_data, c.g_nalloc + 1) THEN 0
           ELSE c.g_nalloc + 1,
   ctx |-> [c EXCEPT !.g_nalloc = @ + 1,
                     !.out_of_memory =
                        @ \/ AllocFails(c.malloc_data, c.g_nalloc + 1)]]

\* strlen of one piece of a message: a literal of the source or one byte
StrLen(piece) ==
  CASE piece = "' already defined" -> 17
    [] piece = "Invalid #include directive" -> 26
    [] piece = "Include callback failed" -> 23
    [] piece = "Invalid #line directive" -> 23
    [] piece = "#error " -> 7
    [] piece = "Macro names must be indentifiers" -> 32
    [] piece = "Invalid #undef directive" -> 24
    [] piece = "Invalid #ifdef directive" -> 24
    [] piece = "Invalid #ifndef directive" -> 25
    [] piece = "Invalid #else directive" -> 23
    [] piece = "#else without #if" -> 17
    [] piece = "#else after #else" -> 17
    [] piece = "Invalid #endif directive" -> 24
    [] piece = "Unmatched #endif" -> 16
    [] piece = "Unterminated #if" -> 16
    [] piece = "Unterminated #ifdef" -> 19
    [] piece = "Unterminated #ifndef" -> 20
    [] piece = "Unterminated #else" -> 18
    [] piece = "Unterminated #elif" -> 18
    [] piece = "Incomplete multiline comment" -> 28
    [] OTHER -> 1

RECURSIVE strlen(_)
strlen(str) ==
  IF str = <<>> THEN 0
  ELSE IF Len(str) = 1 THEN StrLen(str[1])
  ELSE strlen(SubSeq(str, 1, Len(str) \div 2))
       + strlen(SubSeq(str, Len(str) \div 2 + 1, Len(str)))

\* sizeof (ctx->failstr)
FailStrSize == 256

\* vsnprintf into a buffer of size bytes: the longest prefix of whole pieces
\* that leaves room for the terminating zero
RECURSIVE vsnprintf(_, _)
vsnprintf(str, size) ==
  IF str = <<>> \/ StrLen(Head(str)) > size - 1 THEN <<>>
  ELSE <<Head(str)>> \o vsnprintf(Tail(str), size - StrLen(Head(str)))

\* the latch of an error string, as failf and handle_pp_error set it.
\* g_fails counts the errors latched, g_lost the ones latched over an error
\* not yet delivered, g_fail_at is where the top frame stood at the time.
Latch(c, str) ==
  [c EXCEPT !.isfail = TRUE,
            !.failstr = str,
            !.g_fails = @ + 1,
            !.g_lost = @ + (IF c.isfail THEN 1 ELSE 0),
            !.g_fail_at =
               IF c.include_stack = <<>> THEN [frame |-> 0, source |-> 0]
               ELSE [frame |-> c.include_stack[1].g_frame,
                     source |-> c.include_stack[1].source]]

failf(c, msg) == Latch(c, vsnprintf(msg, FailStrSize))

fail(c, reason) == failf(c, <<reason>>)

----------------------------------------------------------------------------
(* Conditional pool. *)

\* get_conditional: a frame from the pool, or a fresh one
Allocated(m) == [ok |-> m.ptr # 0, ctx |-> m.ctx]

get_conditional(c) ==
  IF c.conditional_pool > 0
    THEN [ok |-> TRUE, ctx |-> [c EXCEPT !.conditional_pool = @ - 1]]
    ELSE Allocated(Malloc(c))

\* put_conditionals: a chain of n frames goes back to the pool
put_conditionals(c, n) == [c EXCEPT !.conditional_pool = @ + n]

----------------------------------------------------------------------------
(* Define table: 256 chains, the empty ones left out of the function. *)

RECURSIVE hash_sum(_)
hash_sum(sym) == IF sym = <<>> THEN 0 ELSE Ord(Head(sym)) + hash_sum(Tail(sym))

hash_define(sym) == hash_sum(sym) % 256

Bucket(c, hash) ==
  IF hash \in DOMAIN c.define_hashtable THEN c.define_hashtable[hash] ELSE <<>>

SetBucket(table, hash, chain) ==
  IF chain = <<>>
    THEN [h \in DOMAIN table \ {hash} |-> table[h]]
    ELSE [h \in DOMAIN table \cup {hash} |-> IF h = hash THEN chain ELSE table[h]]

\* index of the first node of the chain whose identifier is sym, 0 if none
ChainIndex(chain, sym) ==
  IF \E i \in DOMAIN chain : chain[i].identifier = sym
    THEN CHOOSE i \in DOMAIN chain :
           /\ chain[i].identifier = sym
           /\ \A j \in 1..(i - 1) : chain[j].identifier # sym
    ELSE 0

\* add_define once identifier and definition were asked for: mi and md
DefineAllocated(mi, md, sym, val) ==
  IF mi.ptr = 0 \/ md.ptr = 0 THEN [ok |-> FALSE, ctx |-> md.ctx]
  ELSE [ok |-> TRUE,
        ctx |-> [md.ctx EXCEPT !.define_hashtable =
                   SetBucket(@, hash_define(sym),
                             <<[identifier |-> sym, definition |-> val]>>
                             \o Bucket(md.ctx, hash_define(sym)))]]

\* add_define once the identifier was asked for: mi
IdentifierAllocated(mi, sym, val) ==
  DefineAllocated(mi, Malloc(mi.ctx), sym, val)

\* add_define once the bucket was asked for: mb
BucketAllocated(mb, sym, val) ==
  IF mb.ptr = 0 THEN [ok |-> FALSE, ctx |-> mb.ctx]
  ELSE IdentifierAllocated(Malloc(mb.ctx), sym, val)

\* a variant that never walks the chain, and links the new node in front of
\* whatever is there
add_define_unchecked(c, sym, val) == BucketAllocated(Malloc(c), sym, val)

add_define(c, sym, val) ==
  IF ChainIndex(Bucket(c, hash_define(sym)), sym) # 0
    THEN [ok |-> FALSE,
          ctx |-> failf(c, <<"'">> \o sym \o <<"' already defined">>)]
    ELSE BucketAllocated(Malloc(c), sym, val)

RemoveAt(chain, i) == SubSeq(chain, 1, i - 1) \o SubSeq(chain, i + 1, Len(chain))

\* a variant that drops the whole chain the identifier is in
Unlinked_chain(c, sym, i) ==
  IF i = 0 THEN [ok |-> FALSE, ctx |-> c]
  ELSE [ok |-> TRUE,
        ctx |-> [c EXCEPT !.define_hashtable =
                   SetBucket(@, hash_define(sym), <<>>)]]

\* remove_define once the chain was walked: i is where sym was found
Unlinked(c, sym, i) ==
  IF i = 0 THEN [ok |-> FALSE, ctx |-> c]
  ELSE [ok |-> TRUE,
        ctx |-> [c EXCEPT !.define_hashtable =
                   SetBucket(@, hash_define(sym),
                             RemoveAt(Bucket(c, hash_define(sym)), i))]]

remove_define(c, sym) ==
  Unlinked(c, sym, ChainIndex(Bucket(c, hash_define(sym)), sym))

\* find_define once the chain was walked: i is where sym was found
Found(chain, i) == IF i = 0 THEN NULL ELSE chain[i].definition

find_define(c, sym) ==
  Found(Bucket(c, hash_define(sym)),
        ChainIndex(Bucket(c, hash_define(sym)), sym))

free_all_defines(c) == [c EXCEPT !.define_hashtable = <<>>]

----------------------------------------------------------------------------
(* Filename cache: a list of [addr, filename], newest first. *)

\* cache_filename once the copy of the name was asked for: ms
NameAllocated(ms, fname) ==
  IF ms.ptr = 0 THEN [ptr |-> 0, ctx |-> ms.ctx]
  ELSE [ptr |-> ms.ptr,
        ctx |-> [ms.ctx EXCEPT !.filename_cache =
                   <<[addr |-> ms.ptr, filename |-> fname]>> \o @]]

\* cache_filename once the item was asked for: mi
ItemAllocated(mi, fname) ==
  IF mi.ptr = 0 THEN [ptr |-> 0, ctx |-> mi.ctx]
  ELSE NameAllocated(Malloc(mi.ctx), fname)

\* g_interns lists the calls of cache_filename: the name asked for and the
\* pointer given; r is what the call gives
Interned(fname, r) ==
  [r EXCEPT !.ctx.g_interns = Append(@, [name |-> fname, ptr |-> r.ptr])]

cache_filename(c, fname) ==
  Interned(fname,
    IF fname = NULL THEN [ptr |-> 0, ctx |-> c]
    ELSE IF \E i \in DOMAIN c.filename_cache : c.filename_cache[i].filename = fname
      THEN [ptr |-> (CHOOSE e \in Range(c.filename_cache) : e.filename = fname).addr,
            ctx |-> c]
    ELSE ItemAllocated(Malloc(c), fname))

\* the string a filename pointer points to
FilenameAt(c, ptr) ==
  IF ptr = 0 THEN NULL
  ELSE (CHOOSE e \in Range(c.filename_cache) : e.addr = ptr).filename

----------------------------------------------------------------------------
(* Include stack: a list of IncludeState, top first. *)

\* push_source once the filename was interned: cf; frame is the address of
\* the IncludeState
NameCached(cf, frame, fname, source, srclen, included) ==
  IF fname # NULL /\ cf.ptr = 0 THEN [ok |-> FALSE, ctx |-> cf.ctx]
  ELSE [ok |-> TRUE,
        ctx |-> [cf.ctx EXCEPT !.include_stack =
                   <<[filename |-> cf.ptr,
                      included |-> included,
                      source_base |-> source.base,
                      mem |-> source.bytes,
                      source |-> 0,
                      token |-> 0,
                      bytes_left |-> srclen,
                      line |-> 1,
                      conditional_stack |-> <<>>,
                      g_frame |-> frame]>> \o @]]

\* push_source once the IncludeState was asked for: ms
StateAllocated(ms, fname, source, srclen, included) ==
  IF ms.ptr = 0 THEN [ok |-> FALSE, ctx |-> ms.ctx]
  ELSE NameCached(cache_filename(ms.ctx, fname), ms.ptr,
                  fname, source, srclen, included)

push_source(c, fname, source, srclen, included) ==
  StateAllocated(Malloc(c), fname, source, srclen, included)

\* the conditional stacks of the include frames, top frame first
CondStacks(c) ==
  [i \in DOMAIN c.include_stack |-> c.include_stack[i].conditional_stack]

\* g_conds lists the steps that act on a conditional stack: the conditional
\* directives, and the frame dropped at the end of a buffer ("EOI"); c is
\* the context the handler was entered with and c2 the one it left; each
\* entry holds the directive, the buffer and the offset its keyword ends at,
\* the conditional stacks before and after, and the latch after
Conditioned(c, c2, directive) ==
  [c2 EXCEPT !.g_conds =
     Append(@, [directive |-> directive, mem |-> c.include_stack[1].mem,
                source |-> c.include_stack[1].source,
                before |-> CondStacks(c),
                after |-> CondStacks(c2), isfail |-> c2.isfail,
                failstr |-> c2.failstr])]

\* the include callbacks' close: g_closed is the list of buffers closed
close_callback(c, base) == [c EXCEPT !.g_closed = Append(@, base)]

\* a variant that pops an included frame without closing its buffer
pop_source_unclosed(c) ==
  IF c.include_stack = <<>> THEN c
  ELSE [put_conditionals(c, Len(c.include_stack[1].conditional_stack))
        EXCEPT !.include_stack = Tail(@),
               !.g_popped = Append(@, [frame |-> c.include_stack[1].g_frame,
                                       source |-> c.include_stack[1].source,
                                       mem |-> c.include_stack[1].mem,
                                       conds |-> CondStacks(c)])]

\* pop_source; g_popped lists the frames popped, with the cursor and the
\* buffer each had at the time, and the conditional stacks of all frames
pop_source(c) ==
  IF c.include_stack = <<>> THEN c
  ELSE [put_conditionals(
          IF c.include_stack[1].included
            THEN close_callback(c, c.include_stack[1].source_base)
            ELSE c,
          Len(c.include_stack[1].conditional_stack))
        EXCEPT !.include_stack = Tail(@),
               !.g_popped = Append(@, [frame |-> c.include_stack[1].g_frame,
                                       source |-> c.include_stack[1].source,
                                       mem |-> c.include_stack[1].mem,
                                       conds |-> CondStacks(c)])]

----------------------------------------------------------------------------
(* Directive handlers.  Each works on the top include frame. *)

Top(c) == c.include_stack[1]

SetTop(c, state) == [c EXCEPT !.include_stack[1] = state]

\* some frame of a conditional stack is skipping
AnySkipping(stack) == \E i \in DOMAIN stack : stack[i].skipping

\* the top frame of a conditional stack is skipping
TopSkipping(stack) == stack # <<>> /\ stack[1].skipping

\* the len bytes at offset from, as memcpy reads them
Bytes(mem, from, len) == SubSeq(mem, from + 1, from + len)

\* require_newline once the lexer has run: source and line go back
Peeked(state, lx) ==
  [ok |-> lx.token \in {"INCOMPLETE_COMMENT", "\n", "EOI"},
   state |-> [lx.state EXCEPT !.source = state.source,
                              !.line = state.line]]

\* require_newline: peek at the next lexeme, put source and line back
require_newline(state) == Peeked(state, preprocessor_internal_lexer(state))

\* the copy of a name out of the lexeme [token, source): len bytes are
\* reserved, len - 1 are copied and a zero is put after them
CopyName(state) ==
  Bytes(state.mem, state.token, (state.source - state.token) - 1)

\* the identifier of the lexeme [token, source) as the directive wrote it
WholeName(state) ==
  Bytes(state.mem, state.token, state.source - state.token)

\* the include callbacks' open: the resolver is the function open_callback
\* from filenames to file contents; g_open_calls lists the calls made, and a
\* buffer handed out is named by the number of the call that opened it
open_callback(c, incltype, filename, parent) ==
  [ok |-> filename \in DOMAIN c.open_callback,
   newdata |-> IF filename \in DOMAIN c.open_callback
                 THEN [base |-> Len(c.g_open_calls) + 1,
                       bytes |-> c.open_callback[filename]]
                 ELSE [base |-> 0, bytes |-> <<>>],
   newbytes |-> IF filename \in DOMAIN c.open_callback
                  THEN Len(c.open_callback[filename]) ELSE 0,
   ctx |-> [c EXCEPT !.g_open_calls =
              Append(@, [incltype |-> incltype, filename |-> filename,
                         parent |-> parent,
                         ok |-> filename \in DOMAIN c.open_callback])]]

\* the scan of a <...> filename: every byte up to the first '>' of the line
RECURSIVE AngleScan(_)
AngleScan(state) ==
  IF state.bytes_left = 0 THEN [bogus |-> TRUE, state |-> state]
  ELSE IF state.mem[state.source + 1] \in {"\r", "\n"}
    THEN [bogus |-> TRUE, state |-> state]
  ELSE IF state.mem[state.source + 1] = ">"
    THEN [bogus |-> FALSE,
          state |-> [state EXCEPT !.source = @ + 1, !.bytes_left = @ - 1]]
  ELSE AngleScan([state EXCEPT !.source = @ + 1, !.bytes_left = @ - 1])

\* the first lexeme after #include: a string literal, or '<' and the scan
IncludeName(lx) ==
  IF lx.token = "STRING_LITERAL" THEN [bogus |-> FALSE, state |-> lx.state]
  ELSE IF lx.token = "<" THEN AngleScan(lx.state)
  ELSE [bogus |-> TRUE, state |-> lx.state]

\* handle_pp_include once push_source has run: ps; g_includes lists the
\* frames pushed by #include, with the name, the parent frame, where the
\* parent resumes, and the conditional stacks of all frames after the push
IncludePushed(ps, filename, newdata, parent) ==
  IF ps.ok
    THEN [ps.ctx EXCEPT !.g_includes =
            Append(@, [child |-> ps.ctx.include_stack[1].g_frame,
                       name |-> filename,
                       parent |-> parent.g_frame,
                       resume |-> parent.source,
                       conds |-> CondStacks(ps.ctx)])]
    ELSE close_callback(ps.ctx, newdata.base)

\* handle_pp_include once the callback has run: op
IncludeOpened(op, filename, parent) ==
  IF ~op.ok THEN fail(op.ctx, "Include callback failed")
  ELSE IncludePushed(push_source(op.ctx, filename, op.newdata, op.newbytes, TRUE),
                     filename, op.newdata, parent)

\* handle_pp_include once require_newline has run: rn
IncludeEnded(c, rn, incltype, filename) ==
  IF ~rn.ok THEN fail(SetTop(c, rn.state), "Invalid #include directive")
  ELSE IncludeOpened(open_callback(SetTop(c, rn.state), incltype, filename,
                                   rn.state.source_base),
                     filename, rn.state)

\* handle_pp_include once the name was scanned: token++ and the copy
IncludeScanned(c, scan, incltype) ==
  IF scan.bogus THEN fail(SetTop(c, scan.state), "Invalid #include directive")
  ELSE IncludeEnded(c, require_newline([scan.state EXCEPT !.token = @ + 1]),
                    incltype, CopyName([scan.state EXCEPT !.token = @ + 1]))

\* handle_pp_include once the lexer has run: lx
IncludeLexed(c, lx) ==
  IncludeScanned(c, IncludeName(lx),
                 IF lx.token = "STRING_LITERAL" THEN "LOCAL" ELSE "SYSTEM")

handle_pp_include(c) == IncludeLexed(c, preprocessor_internal_lexer(Top(c)))

\* handle_pp_line once the filename was interned: cf
LineCached(cf, state, linenum) ==
  SetTop(cf.ctx, [state EXCEPT !.filename = cf.ptr, !.line = linenum])

\* handle_pp_line once require_newline has run: rn
LineEnded(c, rn, filename, linenum) ==
  IF ~rn.ok THEN fail(SetTop(c, rn.state), "Invalid #line directive")
  ELSE LineCached(cache_filename(SetTop(c, rn.state), filename),
                  rn.state, linenum)

\* handle_pp_line once the lexer has run a second time: lx2
LineNamed(c, lx2, linenum) ==
  IF lx2.token # "STRING_LITERAL"
    THEN fail(SetTop(c, lx2.state), "Invalid #line directive")
  ELSE LineEnded(c, require_newline([lx2.state EXCEPT !.token = @ + 1]),
                 CopyName([lx2.state EXCEPT !.token = @ + 1]), linenum)

\* handle_pp_line once the lexer has run: lx1
LineNumbered(c, lx1) ==
  IF lx1.token # "INT_LITERAL"
    THEN fail(SetTop(c, lx1.state), "Invalid #line directive")
  ELSE LineNamed(c, preprocessor_internal_lexer(lx1.state),
                 atoi(WholeName(lx1.state)))

handle_pp_line(c) == LineNumbered(c, preprocessor_internal_lexer(Top(c)))

Min(a, b) == IF a < b THEN a ELSE b

\* the loop of handle_pp_error: lex to the end of the line; data is the
\* offset of the first lexeme of the message (-1: none was seen), source the
\* offset the last lexer call started from
\* one turn of the loop: lx is what the lexer gave from state
ErrorTurn(state, data, lx) ==
  IF lx.token = "\n"
    THEN [more |-> FALSE, state |-> [lx.state EXCEPT !.line = @ - 1],
          data |-> data, source |-> state.source]
  ELSE IF lx.token \in {"INCOMPLETE_COMMENT", "EOI"}
    THEN [more |-> FALSE, state |-> lx.state,
          data |-> data, source |-> state.source]
  ELSE [more |-> TRUE, state |-> lx.state,
        data |-> IF data = -1 THEN lx.state.token ELSE data,
        source |-> state.source]

RECURSIVE ErrorScan(_)
ErrorScan(t) ==
  IF t.more
    THEN ErrorScan(ErrorTurn(t.state, t.data,
                             preprocessor_internal_lexer(t.state)))
    ELSE t

\* the latch of "#error " and cpy bytes of the message; g_failstr_end is
\* the index the terminating zero is written at
ErrorLatched(c, mem, data, cpy) ==
  [Latch(c, <<"#error ">> \o (IF cpy > 0 THEN Bytes(mem, data, cpy) ELSE <<>>))
     EXCEPT !.g_failstr_end = cpy + StrLen("#error ")]

\* handle_pp_error when no lexeme of a message was seen: data is NULL, len
\* is the address of source cut to an int, and memcpy reads cpy bytes from
\* address 0 when cpy > 0.  What follows is not defined; the outcomes are
\* a fault ("crash"), a copy of whatever lies at address 0 that fills the
\* buffer ("garbage"), or no copy at all when the cut address is not
\* positive ("nothing")
NullMessage(c, outcome) ==
  CASE outcome = "crash" -> [c EXCEPT !.g_crashed = TRUE]
    [] outcome = "garbage" ->
         [Latch(c, <<"#error ", "?">>) EXCEPT !.g_failstr_end = FailStrSize]
    [] outcome = "nothing" ->
         [Latch(c, <<"#error ">>) EXCEPT !.g_failstr_end = StrLen("#error ")]

\* handle_pp_error once the line was scanned: es
ErrorScanned(c, es) ==
  IF es.data = -1
    THEN NullMessage(SetTop(c, [es.state EXCEPT !.source = es.source]),
                     c.malloc_data.null_read)
    ELSE ErrorLatched(SetTop(c, [es.state EXCEPT !.source = es.source]),
                      es.state.mem, es.data,
                      Min(es.source - es.data, FailStrSize - StrLen("#error ")))

handle_pp_error(c) ==
  ErrorScanned(c, ErrorScan([more |-> TRUE, state |-> Top(c), data |-> -1,
                             source |-> Top(c).source]))

\* handle_pp_undef once remove_define has run: c2; g_undefs lists the
\* directives carried out, with the identifier as written, the table before
\* and after, and the latch after
UndefRemoved(c, c2, full) ==
  [c2 EXCEPT !.g_undefs =
     Append(@, [sym |-> full, before |-> c.define_hashtable,
                after |-> c2.define_hashtable, isfail |-> c2.isfail])]

\* handle_pp_undef once require_newline has run: rn
UndefEnded(c, rn, sym, full) ==
  IF ~rn.ok THEN fail(SetTop(c, rn.state), "Invalid #undef directive")
  ELSE UndefRemoved(c, remove_define(SetTop(c, rn.state), sym).ctx, full)

\* handle_pp_undef once the lexer has run: lx
UndefLexed(c, lx) ==
  IF lx.token # "IDENTIFIER"
    THEN fail(SetTop(c, lx.state), "Macro names must be indentifiers")
  ELSE UndefEnded(c, require_newline(lx.state), CopyName(lx.state),
                  WholeName(lx.state))

handle_pp_undef(c) == UndefLexed(c, preprocessor_internal_lexer(Top(c)))

\* the frame _handle_pp_ifdef pushes; it also records what the directive
\* said: g_sym the identifier as written, g_defined whether that identifier
\* was defined, g_outer whether the enclosing frame was skipping
Conditional(type, linenum, skipping, full, defined, outer) ==
  [type |-> type,
   linenum |-> linenum,
   skipping |-> skipping,
   chosen |-> ~skipping,
   g_sym |-> full,
   g_defined |-> defined,
   g_outer |-> outer]

\* the skipping flag of a new frame: prev is the conditional stack
IfdefSkipping(c, type, prev, sym) ==
  IF prev # <<>> /\ prev[1].skipping THEN TRUE
  ELSE IF type = "PP_IFDEF" THEN find_define(c, sym) = NULL
  ELSE find_define(c, sym) # NULL

\* _handle_pp_ifdef once get_conditional has run: gc
IfdefGot(gc, type, state, sym, full) ==
  IF ~gc.ok THEN gc.ctx
  ELSE SetTop(gc.ctx, [state EXCEPT !.conditional_stack =
         <<Conditional(type, state.line - 1,
                       IfdefSkipping(gc.ctx, type, state.conditional_stack, sym),
                       full, find_define(gc.ctx, full) # NULL,
                       TopSkipping(state.conditional_stack))>> \o @])

\* _handle_pp_ifdef once require_newline has run: rn
IfdefEnded(c, type, rn, sym, full) ==
  IF ~rn.ok
    THEN fail(SetTop(c, rn.state),
              IF type = "PP_IFDEF" THEN "Invalid #ifdef directive"
              ELSE "Invalid #ifndef directive")
    ELSE IfdefGot(get_conditional(SetTop(c, rn.state)), type, rn.state,
                  sym, full)

\* _handle_pp_ifdef once the lexer has run: lx
IfdefLexed(c, type, lx) ==
  IF lx.token # "IDENTIFIER"
    THEN fail(SetTop(c, lx.state), "Macro names must be indentifiers")
  ELSE IfdefEnded(c, type, require_newline(lx.state), CopyName(lx.state),
                  WholeName(lx.state))

handle_pp_ifdef_(c, type) ==
  Conditioned(c, IfdefLexed(c, type, preprocessor_internal_lexer(Top(c))), type)

handle_pp_ifdef(c) == handle_pp_ifdef_(c, "PP_IFDEF")

handle_pp_ifndef(c) == handle_pp_ifdef_(c, "PP_IFNDEF")

\* handle_pp_else once require_newline has run: rn
ElseEnded(c, rn) ==
  IF ~rn.ok THEN fail(SetTop(c, rn.state), "Invalid #else directive")
  ELSE IF rn.state.conditional_stack = <<>>
    THEN fail(SetTop(c, rn.state), "#else without #if")
  ELSE IF rn.state.conditional_stack[1].type = "PP_ELSE"
    THEN fail(SetTop(c, rn.state), "#else after #else")
  ELSE SetTop(c, [rn.state EXCEPT !.conditional_stack[1] =
         [@ EXCEPT !.type = "PP_ELSE",
                   !.skipping = rn.state.conditional_stack[1].chosen,
                   !.chosen = TRUE]])

handle_pp_else(c) ==
  Conditioned(c, ElseEnded(c, require_newline(Top(c))), "PP_ELSE")

\* a variant that, with no conditional open in the top include frame, pops
\* the one the frame under it has open
EndifEnded_outer(c, rn) ==
  IF ~rn.ok THEN fail(SetTop(c, rn.state), "Invalid #endif directive")
  ELSE IF rn.state.conditional_stack # <<>>
    THEN put_conditionals(
           SetTop(c, [rn.state EXCEPT !.conditional_stack = Tail(@)]), 1)
  ELSE IF Len(c.include_stack) >= 2 /\ c.include_stack[2].conditional_stack # <<>>
    THEN put_conditionals(
           [SetTop(c, rn.state)
              EXCEPT !.include_stack[2].conditional_stack = Tail(@)], 1)
  ELSE fail(SetTop(c, rn.state), "Unmatched #endif")

\* handle_pp_endif once require_newline has run: rn
EndifEnded(c, rn) ==
  IF ~rn.ok THEN fail(SetTop(c, rn.state), "Invalid #endif directive")
  ELSE IF rn.state.conditional_stack = <<>>
    THEN fail(SetTop(c, rn.state), "Unmatched #endif")
  ELSE put_conditionals(
         SetTop(c, [rn.state EXCEPT !.conditional_stack = Tail(@)]), 1)

handle_pp_endif(c) ==
  Conditioned(c, EndifEnded(c, require_newline(Top(c))), "PP_ENDIF")

\* the message for an open frame of this type
UnterminatedMessage(type) ==
  CASE type = "PP_IF" -> "Unterminated #if"
    [] type = "PP_IFDEF" -> "Unterminated #ifdef"
    [] type = "PP_IFNDEF" -> "Unterminated #ifndef"
    [] type = "PP_ELSE" -> "Unterminated #else"
    [] type = "PP_ELIF" -> "Unterminated #elif"

\* the top conditional of the top frame goes back to the pool
DropConditional(c) ==
  put_conditionals(
    SetTop(c, [c.include_stack[1] EXCEPT !.conditional_stack = Tail(@)]), 1)

unterminated_pp_condition(c) ==
  Conditioned(c, DropConditional(fail(c, UnterminatedMessage(
                                           Top(c).conditional_stack[1].type))),
              "EOI")

----------------------------------------------------------------------------
(* The token stream. *)

\* a variant that reports the root of the include stack, not its top frame
preprocessor_sourcepos_root(c) ==
  IF c.include_stack = <<>> THEN [filename |-> NULL, pos |-> 0]
  ELSE [filename |-> FilenameAt(c, c.include_stack[Len(c.include_stack)].filename),
        pos |-> c.include_stack[Len(c.include_stack)].line]

\* preprocessor_sourcepos: [filename, pos] of the top include frame
preprocessor_sourcepos(c) ==
  IF c.include_stack = <<>> THEN [filename |-> NULL, pos |-> 0]
  ELSE [filename |-> FilenameAt(c, Top(c).filename), pos |-> Top(c).line]

preprocessor_outofmemory(c) == c.out_of_memory

\* what one call of _preprocessor_nexttoken gives back: the context, the
\* token, its length and bytes; and where the lexeme came from: the include
\* frame, the offset of its first byte, and whether a conditional enclosing
\* it was skipping
Returned(c, token, len, bytes, frame, start, skipped) ==
  [ctx |-> c, token |-> token, len |-> len, bytes |-> bytes,
   frame |-> frame, start |-> start, skipped |-> skipped]

\* a variant that clears the latch and returns the message as an ordinary
\* lexeme
flush_error_untagged(c) ==
  Returned([c EXCEPT !.isfail = FALSE, !.g_delivered = @ + 1],
           "UNKNOWN", strlen(c.failstr), c.failstr,
           c.g_fail_at.frame, c.g_fail_at.source, FALSE)

\* the latched error goes out and the latch is cleared
flush_error(c) ==
  Returned([c EXCEPT !.isfail = FALSE, !.g_delivered = @ + 1],
           "PREPROCESSING_ERROR", strlen(c.failstr), c.failstr,
           c.g_fail_at.frame, c.g_fail_at.source, FALSE)

\* a variant that gives EOI and sets the latch again, so that the call
\* after it returns the last error once more
eoi_return_relatched(c) ==
  Returned([c EXCEPT !.isfail = TRUE], "EOI", 0, NULL, 0, 0, FALSE)

\* the include stack is empty
eoi_return(c) == Returned(c, "EOI", 0, NULL, 0, 0, FALSE)

\* the lexeme [token, source) of the top frame goes to the caller
token_return(c, token) ==
  Returned(c, token, Top(c).source - Top(c).token, WholeName(Top(c)),
           Top(c).g_frame, Top(c).token,
           AnySkipping(Top(c).conditional_stack))

\* a directive that acts on the include stack, the define table or the latch
\* is dispatched; g_skipped_effects counts the ones dispatched while a
\* conditional enclosing the directive was skipping
Dispatched(c) ==
  [c EXCEPT !.g_skipped_effects =
     @ + (IF AnySkipping(Top(c).conditional_stack) THEN 1 ELSE 0)]

\* a variant with a case for #define: the identifier after it is bound, and
\* the loop goes round again
Ordinary_binds(c, token) ==
  IF token = "PP_DEFINE"
    THEN [again |-> TRUE,
          ctx |-> add_define(
                    SetTop(c, preprocessor_internal_lexer(Top(c)).state),
                    WholeName(preprocessor_internal_lexer(Top(c)).state),
                    <<"1">>).ctx]
    ELSE [again |-> FALSE, ctx |-> c]

\* a lexeme no case of the loop takes goes to the caller as it is: ordinary
\* lexemes, and the directives whose cases are left out (#define, #if, #elif)
Ordinary(c, token) == [again |-> FALSE, ctx |-> c]

\* one turn of the loop of _preprocessor_nexttoken after the lexer call:
\* either the context to go round again with, or the lexeme to return
Turn(c, token, skipping) ==
  IF token = "EOI"
    THEN IF Top(c).conditional_stack # <<>>
           THEN [again |-> TRUE, ctx |-> unterminated_pp_condition(c)]
           ELSE [again |-> TRUE, ctx |-> pop_source(c)]
  ELSE IF token = "INCOMPLETE_COMMENT"
    THEN [again |-> TRUE, ctx |-> fail(c, "Incomplete multiline comment")]
  ELSE IF token = "PP_IFDEF" THEN [again |-> TRUE, ctx |-> handle_pp_ifdef(c)]
  ELSE IF token = "PP_IFNDEF" THEN [again |-> TRUE, ctx |-> handle_pp_ifndef(c)]
  ELSE IF token = "PP_ENDIF" THEN [again |-> TRUE, ctx |-> handle_pp_endif(c)]
  ELSE IF token = "PP_ELSE" THEN [again |-> TRUE, ctx |-> handle_pp_else(c)]
  ELSE IF skipping THEN [again |-> TRUE, ctx |-> c]
  ELSE IF token = "PP_INCLUDE"
    THEN [again |-> TRUE, ctx |-> handle_pp_include(Dispatched(c))]
  ELSE IF token = "PP_LINE"
    THEN [again |-> TRUE, ctx |-> handle_pp_line(Dispatched(c))]
  ELSE IF token = "PP_ERROR"
    THEN [again |-> TRUE, ctx |-> handle_pp_error(Dispatched(c))]
  ELSE IF token = "PP_UNDEF"
    THEN [again |-> TRUE, ctx |-> handle_pp_undef(Dispatched(c))]
  ELSE Ordinary(c, token)

\* the directives the loop has no case for
Unimplemented == {"PP_DEFINE", "PP_IF", "PP_ELIF"}

\* g_inert lists the turns of the loop on a directive it has no case for: c
\* is the context the turn began with and t what the turn gave; each entry
\* holds the directive, whether the turn was skipping and whether the loop
\* went round again, and the conditional stacks, the define table and the
\* number of errors latched before and after
Logged(c, token, skipping, t) ==
  IF token \in Unimplemented
    THEN [t EXCEPT !.ctx.g_inert =
            Append(@, [token |-> token, skipping |-> skipping,
                       again |-> t.again,
                       conds |-> <<CondStacks(c), CondStacks(t.ctx)>>,
                       table |-> <<c.define_hashtable, t.ctx.define_hashtable>>,
                       fails |-> <<c.g_fails, t.ctx.g_fails>>])]
    ELSE t

\* one turn of the loop once the lexer has run: lx
Lexed(c, lx) ==
  [turn |-> Logged(SetTop(c, lx.state), lx.token,
                   TopSkipping(Top(c).conditional_stack),
                   Turn(SetTop(c, lx.state), lx.token,
                        TopSkipping(Top(c).conditional_stack))),
   token |-> lx.token]

\* go round again, or return the lexeme.  The model stops following a call
\* when the handler faulted, and when the include stack grew deeper than
\* MaxIncludeDepth
RECURSIVE Loop(_)
nexttoken(c) ==
  IF c.g_crashed THEN Returned(c, "CRASH", 0, NULL, 0, 0, FALSE)
  ELSE IF Len(c.include_stack) > MaxIncludeDepth
    THEN Returned(c, "DIVERGED", 0, NULL, 0, 0, FALSE)
  ELSE IF c.isfail THEN flush_error(c)
  ELSE IF c.include_stack = <<>> THEN eoi_return(c)
  ELSE Loop(Lexed(c, preprocessor_internal_lexer(Top(c))))

Loop(l) ==
  IF l.turn.again THEN nexttoken(l.turn.ctx)
  ELSE token_return(l.turn.ctx, l.token)

----------------------------------------------------------------------------
(* Start and end. *)

\* the context after memset, holding the capabilities it was given
NewContext(open, malloc_data) ==
  [isfail |-> FALSE,
   out_of_memory |-> FALSE,
   failstr |-> <<>>,
   conditional_pool |-> 0,
   include_stack |-> <<>>,
   define_hashtable |-> <<>>,
   filename_cache |-> <<>>,
   open_callback |-> open,
   malloc_data |-> malloc_data,
   g_nalloc |-> 0,
   g_fails |-> 0,
   g_lost |-> 0,
   g_delivered |-> 0,
   g_fail_at |-> [frame |-> 0, source |-> 0],
   g_failstr_end |-> 0,
   g_crashed |-> FALSE,
   g_closed |-> <<>>,
   g_popped |-> <<>>,
   g_open_calls |-> <<>>,
   g_includes |-> <<>>,
   g_undefs |-> <<>>,
   g_conds |-> <<>>,
   g_inert |-> <<>>,
   g_interns |-> <<>>,
   g_skipped_effects |-> 0]

RECURSIVE PopAll(_)
PopAll(c) == IF c.include_stack = <<>> THEN c ELSE PopAll(pop_source(c))

preprocessor_end(c) ==
  [free_all_defines(PopAll(c)) EXCEPT !.filename_cache = <<>>,
                                     !.conditional_pool = 0]

\* one turn of the loop over the caller's defines: a is what add_define gave
RECURSIVE AddDefines(_, _)
Added(a, rest) == IF ~a.ok THEN a ELSE AddDefines(a.ctx, rest)

\* the loop over the caller's defines: stops at the first add_define that fails
AddDefines(c, defines) ==
  IF defines = <<>> THEN [ok |-> TRUE, ctx |-> c]
  ELSE Added(add_define(c, Head(defines).identifier, Head(defines).definition),
             Tail(defines))

\* preprocessor_start once push_source has run: ps
SourcePushed(ps) ==
  IF ~ps.ok THEN [ok |-> FALSE, ctx |-> preprocessor_end(ps.ctx)] ELSE ps

\* preprocessor_start once the defines were added: ad
DefinesAdded(ad, fname, source, sourcelen) ==
  IF ~ad.ok THEN [ok |-> FALSE, ctx |-> preprocessor_end(ad.ctx)]
  ELSE SourcePushed(push_source(ad.ctx, fname, [base |-> 0, bytes |-> source],
                                sourcelen, FALSE))

\* preprocessor_start once the context was asked for: m
ContextAllocated(m, fname, source, sourcelen, defines) ==
  IF m.ptr = 0 THEN [ok |-> FALSE, ctx |-> m.ctx]
  ELSE DefinesAdded(AddDefines([m.ctx EXCEPT !.out_of_memory = FALSE], defines),
                    fname, source, sourcelen)

\* preprocessor_start: [ok, ctx]; not ok is the NULL handle
preprocessor_start(fname, source, sourcelen, open, defines, malloc_data) ==
  ContextAllocated(Malloc(NewContext(open, malloc_data)),
                   fname, source, sourcelen, defines)

----------------------------------------------------------------------------
(* The flatten pass: MOJOSHADER_preprocess and its output buffer. *)

\* 64 * 1024 bytes to a chunk
BUFFER_LEN == 65536

\* m(size, d) called by the flatten pass itself: the caller's allocator with
\* no out_of_memory flag of the context behind it
malloc(c) ==
  [ptr |-> IF AllocFails(c.malloc_data, c.g_nalloc + 1) THEN 0
           ELSE c.g_nalloc + 1,
   ctx |-> [c EXCEPT !.g_nalloc = @ + 1]]

\* m(size, d) where size may be zero: what the allocator gives for a request
\* of no bytes is its own choice (malloc_data.zero_null: the null pointer)
malloc_sized(c, size) ==
  IF size = 0 /\ c.malloc_data.zero_null
    THEN [ptr |-> 0, ctx |-> [c EXCEPT !.g_nalloc = @ + 1]]
    ELSE malloc(c)

\* the buffer: total_bytes and the chunks from head to tail
buffer_init == [total_bytes |-> 0, chunks |-> <<(<<>>)>>]

\* the bytes of all chunks, head first
RECURSIVE Concat(_)
Concat(chunks) ==
  IF chunks = <<>> THEN <<>> ELSE Head(chunks) \o Concat(Tail(chunks))

\* the locals of MOJOSHADER_preprocess inside its loop; g_log is the record
\* of the turns of the loop so far
FlattenState(pp, windows) ==
  [pp |-> pp, buffer |-> buffer_init, nl |-> TRUE, indent |-> 0,
   out_of_memory |-> FALSE, isnewline |-> FALSE,
   errors |-> <<>>, error_count |-> 0,
   windows |-> windows, g_log |-> <<>>]

RECURSIVE add_loop(_, _)
\* add_to_buffer after a copy into the tail chunk: a full tail gets a new
\* chunk behind it
ChunkAllocated(mi, f, rest) ==
  IF mi.ptr = 0 THEN [ok |-> FALSE, f |-> [f EXCEPT !.pp = mi.ctx]]
  ELSE add_loop([f EXCEPT !.pp = mi.ctx,
                          !.buffer.chunks = Append(@, <<>>)], rest)

\* a variant that asks for the next chunk only when bytes are left to copy
ChunkFilled_lazy(f, rest) ==
  IF rest = <<>> THEN [ok |-> TRUE, f |-> f]
  ELSE IF Len(f.buffer.chunks[Len(f.buffer.chunks)]) = BUFFER_LEN
    THEN ChunkAllocated(malloc(f.pp), f, rest)
    ELSE add_loop(f, rest)

\* the tail chunk after a copy: a full one gets a new chunk behind it
ChunkFilled(f, rest) ==
  IF Len(f.buffer.chunks[Len(f.buffer.chunks)]) = BUFFER_LEN
    THEN ChunkAllocated(malloc(f.pp), f, rest)
    ELSE add_loop(f, rest)

\* one turn of the loop of add_to_buffer: cpy bytes go to the tail chunk
Copied(f, data, cpy) ==
  ChunkFilled([f EXCEPT !.buffer.chunks[Len(f.buffer.chunks)] =
                           @ \o SubSeq(data, 1, cpy)],
              SubSeq(data, cpy + 1, Len(data)))

add_loop(f, data) ==
  IF data = <<>> THEN [ok |-> TRUE, f |-> f]
  ELSE Copied(f, data,
              Min(Len(data),
                  BUFFER_LEN - Len(f.buffer.chunks[Len(f.buffer.chunks)])))

\* add_to_buffer: [ok, f]
add_to_buffer(f, data) ==
  add_loop([f EXCEPT !.buffer.total_bytes = @ + Len(data)], data)

spaces == <<" ", " ", " ", " ">>

RECURSIVE IndentLoop(_, _)
Indented(r, n) == IF r.ok THEN IndentLoop(r.f, n) ELSE r

IndentLoop(f, n) ==
  IF n = 0 THEN [ok |-> TRUE, f |-> f]
  ELSE Indented(add_to_buffer(f, spaces), n - 1)

\* indent_buffer: n times four spaces on a new line, one space otherwise
indent_buffer(f, n, newline) ==
  IF newline THEN IndentLoop(f, n)
  ELSE add_to_buffer(f, SubSeq(spaces, 1, 1))

\* flatten_buffer: [ptr, ctx, bytes], the chunks copied into one allocation
FlattenAllocated(mi, buffer) ==
  [ptr |-> mi.ptr, ctx |-> mi.ctx,
   bytes |-> IF mi.ptr = 0 THEN NULL ELSE Concat(buffer.chunks)]

flatten_buffer(f) == FlattenAllocated(malloc(f.pp), f.buffer)

\* build_errors: [ptr, ctx, errors], the list copied into one array
ErrorsAllocated(mi, errors) ==
  [ptr |-> mi.ptr, ctx |-> mi.ctx,
   errors |-> IF mi.ptr = 0 THEN NULL ELSE errors]

build_errors(c, errors, count) ==
  ErrorsAllocated(malloc_sized(c, count), errors)

endline(f) == IF f.windows THEN <<"\r", "\n">> ELSE <<"\n">>

\* the next call of a chain a || b || c of buffer calls
ThenAdd(r, data) == IF r.ok THEN add_to_buffer(r.f, data) ELSE r

ThenIndent(r, n, newline) == IF r.ok THEN indent_buffer(r.f, n, newline) ELSE r

\* the locals after a chain of buffer calls
Wrote(r, indent, isnewline) ==
  [r.f EXCEPT !.out_of_memory = ~r.ok, !.indent = indent,
              !.isnewline = isnewline]

\* the case of '}' and ';', with the indent already counted down
Closed(f, tokstr, indent) ==
  Wrote(ThenAdd(ThenAdd(indent_buffer(f, indent, f.nl), tokstr), endline(f)),
        indent, TRUE)

\* the case of '{'
Opening(f) ==
  Wrote(ThenAdd(ThenAdd(ThenIndent(add_to_buffer(f, endline(f)),
                                   f.indent, TRUE),
                        <<"{">>),
                endline(f)),
        f.indent + 1, TRUE)

\* the case of any other token
Plain(f, tokstr) ==
  Wrote(ThenAdd(indent_buffer(f, f.indent, f.nl), tokstr), f.indent, FALSE)

\* a variant that puts the new error at the head of the list
ErrorAppended_first(f, me, mf, ms, sp, tokstr) ==
  IF me.ptr = 0 \/ (mf.ptr = 0 /\ sp.filename # NULL) \/ ms.ptr = 0
    THEN [f EXCEPT !.pp = ms.ctx, !.out_of_memory = TRUE]
    ELSE [f EXCEPT !.pp = ms.ctx,
                   !.errors = <<[error |-> tokstr, filename |-> sp.filename,
                                 error_position |-> sp.pos]>> \o @,
                   !.error_count = @ + 1]

\* the case of TOKEN_PREPROCESSING_ERROR once its three allocations were
\* asked for: the error goes to the end of the list
ErrorAppended(f, me, mf, ms, sp, tokstr) ==
  IF me.ptr = 0 \/ (mf.ptr = 0 /\ sp.filename # NULL) \/ ms.ptr = 0
    THEN [f EXCEPT !.pp = ms.ctx, !.out_of_memory = TRUE]
    ELSE [f EXCEPT !.pp = ms.ctx,
                   !.errors = Append(@, [error |-> tokstr,
                                         filename |-> sp.filename,
                                         error_position |-> sp.pos]),
                   !.error_count = @ + 1]

NameAsked(f, me, mf, sp, tokstr) ==
  ErrorAppended(f, me, mf, malloc(mf.ctx), sp, tokstr)

RecordAsked(f, me, sp, tokstr) ==
  IF sp.filename # NULL THEN NameAsked(f, me, malloc(me.ctx), sp, tokstr)
  ELSE NameAsked(f, me, [ptr |-> 0, ctx |-> me.ctx], sp, tokstr)

Erred(f, tokstr) ==
  RecordAsked(f, malloc(f.pp), preprocessor_sourcepos(f.pp), tokstr)

\* the body of the loop for one token, up to nl = isnewline
Cases(f, token, tokstr) ==
  IF token = "\n" THEN [f EXCEPT !.isnewline = f.nl]
  ELSE IF f.out_of_memory THEN f
  ELSE IF token \in {"}", ";"}
    THEN Closed(f, tokstr,
                IF token = "}" /\ f.indent > 0 THEN f.indent - 1 ELSE f.indent)
  ELSE IF token = "{" THEN Opening(f)
  ELSE IF token = "PREPROCESSING_ERROR" THEN Erred(f, tokstr)
  ELSE Plain(f, tokstr)

\* what the turn added to the end of the buffer
Grown(before, after) ==
  SubSeq(Concat(after.chunks), Len(Concat(before.chunks)) + 1,
         Len(Concat(after.chunks)))

\* g_log gets the turn: the token, nl and indent before it, the position
\* preprocessor_sourcepos gave at the time, and what the turn wrote
Turned(f, g, r, sp) ==
  [g EXCEPT !.nl = g.isnewline,
            !.g_log = Append(@, [token |-> r.token, bytes |-> r.bytes,
                                 nl |-> f.nl, indent |-> f.indent,
                                 filename |-> sp.filename, pos |-> sp.pos,
                                 before |-> Concat(f.buffer.chunks),
                                 wrote |-> Grown(f.buffer, g.buffer)])]

\* the locals when the body starts: isnewline = 0, and out_of_memory read
\* from the preprocessor
Entered(f, r) ==
  [f EXCEPT !.pp = r.ctx, !.isnewline = FALSE,
            !.out_of_memory = @ \/ preprocessor_outofmemory(r.ctx)]

OneToken(f, r) ==
  Turned(Entered(f, r), Cases(Entered(f, r), r.token, r.bytes), r,
         preprocessor_sourcepos(r.ctx))

out_of_mem_data_preprocessor ==
  [error_count |-> 1, errors |-> <<"MOJOSHADER_out_of_mem_error">>,
   output |-> NULL, output_len |-> 0]

\* what MOJOSHADER_preprocess gives back: how it ended (sentinel, data,
\* crashed, diverged), the preprocessData, the context that was torn down,
\* and the turns of the loop
Result(kind, retval, pp, f) ==
  [kind |-> kind, retval |-> retval, pp |-> pp, g_log |-> f.g_log]

NoData == [kind |-> "none", retval |-> NULL, g_log |-> <<>>]

\* after the loop: the array of errors was asked for
ErrorsBuilt(f, output, be) ==
  IF be.ptr = 0 THEN Result("sentinel", out_of_mem_data_preprocessor, be.ctx, f)
  ELSE Result("data",
              [error_count |-> f.error_count, errors |-> be.errors,
               output |-> output, output_len |-> f.buffer.total_bytes],
              be.ctx, f)

\* after the loop: retval was asked for
DataAllocated(f, output, mi) ==
  IF mi.ptr = 0 THEN Result("sentinel", out_of_mem_data_preprocessor, mi.ctx, f)
  ELSE ErrorsBuilt(f, output, build_errors(mi.ctx, f.errors, f.error_count))

\* after the loop: the output was asked for
Flattened(f, fb) ==
  IF fb.ptr = 0 THEN Result("sentinel", out_of_mem_data_preprocessor, fb.ctx, f)
  ELSE DataAllocated(f, fb.bytes, malloc(fb.ctx))

\* after the loop
Finish(f) == Flattened(f, flatten_buffer([f EXCEPT !.pp = preprocessor_end(f.pp)]))

RECURSIVE FlattenLoop(_)
\* the loop ends when preprocessor_nexttoken has no more bytes to give
LoopEnded(f, r) == Finish([f EXCEPT !.pp = r.ctx])

\* the end of one turn
TurnEnded(f) ==
  IF f.out_of_memory
    THEN Result("sentinel", out_of_mem_data_preprocessor,
                preprocessor_end(f.pp), f)
    ELSE FlattenLoop(f)

TokenGot(f, r) ==
  IF r.token = "CRASH" THEN Result("crashed", NULL, r.ctx, f)
  ELSE IF r.token = "DIVERGED" THEN Result("diverged", NULL, r.ctx, f)
  ELSE IF r.token = "EOI" THEN LoopEnded(f, r)
  ELSE TurnEnded(OneToken(f, r))

FlattenLoop(f) == TokenGot(f, nexttoken(f.pp))

\* MOJOSHADER_preprocess once preprocessor_start has run: ps
PreprocessStarted(ps, windows) ==
  IF ~ps.ok
    THEN Result("sentinel", out_of_mem_data_preprocessor, ps.ctx,
                FlattenState(ps.ctx, windows))
    ELSE FlattenLoop(FlattenState(ps.ctx, windows))

\* MOJOSHADER_preprocess: open is include_open, d the allocator's data
MOJOSHADER_preprocess(filename, source, len, defines, open, d, windows) ==
  PreprocessStarted(preprocessor_start(filename, source, len, open, defines, d),
                    windows)

----------------------------------------------------------------------------
(* Inputs: root sources made of lines, the caller's defines, the include   *)
(* resolver and the allocator.                                             *)

L_IFDEF == <<"#","i","f","d","e","f"," ","A","B">>

L_IFNDEF == <<"#","i","f","n","d","e","f"," ","A","B">>

L_ELSE == <<"#","e","l","s","e">>

L_ENDIF == <<"#","e","n","d","i","f">>

L_X == <<"X">>

L_Y == <<"Y">>

L_UNDEF == <<"#","u","n","d","e","f"," ","A","B">>

L_INCLUDE == <<"#","i","n","c","l","u","d","e"," ","\"","x","\"">>

L_ERROR == <<"#","e","r","r","o","r"," ","m">>

L_LINE == <<"#","l","i","n","e"," ","7"," ","\"","f","\"">>

L_DEFINE == <<"#","d","e","f","i","n","e"," ","A","B"," ","1">>

L_COMMENT == <<"/","*">>

L_IFDEF_C == <<"#","i","f","d","e","f"," ","A","B"," ","/","/","c","c","c","c","c">>

\* the bytes of a source of these lines, each ended by a newline, the last
\* one only when nl
RECURSIVE MkSource(_, _)
MkSource(lines, nl) ==
  IF lines = <<>> THEN <<>>
  ELSE IF Len(lines) = 1 THEN Head(lines) \o (IF nl THEN <<"\n">> ELSE <<>>)
  ELSE Head(lines) \o <<"\n">> \o MkSource(Tail(lines), nl)

SeqsUpTo(S, n) == UNION {[1..k -> S] : k \in 0..n}

Define(id, text) == [identifier |-> id, definition |-> text]

NoDefines == <<>>

DefinesA == <<Define(<<"A">>, <<"1">>)>>

DefinesAB == <<Define(<<"A","B">>, <<"1">>)>>

DefinesBoth == <<Define(<<"A","B">>, <<"1">>), Define(<<"A">>, <<"2">>)>>

\* include resolvers: a function from the names that open to their bytes
NoFiles == <<>>

FilesP == (<<"x">> :> MkSource(<<L_X, L_Y>>, TRUE))

FilesNested ==
  (<<"x">> :> MkSource(<<L_Y, <<"#","i","n","c","l","u","d","e"," ","\"","y","\"">>, L_Y>>, TRUE))
  @@ (<<"y">> :> MkSource(<<L_X>>, TRUE))

FilesOpenIf == (<<"x">> :> MkSource(<<L_IFDEF, L_X>>, TRUE))

\* the allocator's data: see Malloc
MallocData(failAt, sticky, zero_null, null_read) ==
  [failAt |-> failAt, sticky |-> sticky, zero_null |-> zero_null,
   null_read |-> null_read]

NeverFails == MallocData(0, FALSE, FALSE, "crash")

RootName == <<"r">>

MkInput(lines, nl, defines, files, malloc_data) ==
  [fname |-> RootName,
   lines |-> lines,
   source |-> MkSource(lines, nl),
   defines |-> defines,
   files |-> files,
   malloc_data |-> malloc_data,
   windows |-> FALSE]

CondAlphabet == {L_IFDEF, L_IFNDEF, L_ELSE, L_ENDIF, L_X}

CondInputs ==
  {MkInput(ls, TRUE, d, NoFiles, NeverFails) :
     ls \in SeqsUpTo(CondAlphabet, MaxCondLines),
     d \in {NoDefines, DefinesA, DefinesAB}}

DirAlphabet ==
  {L_UNDEF, L_INCLUDE, L_ERROR, L_LINE, L_DEFINE, L_COMMENT, L_IFDEF, L_X}

DirInputs ==
  {MkInput(ls, nl, d, f, NeverFails) :
     ls \in SeqsUpTo(DirAlphabet, MaxDirLines),
     nl \in BOOLEAN,
     d \in {NoDefines, DefinesBoth},
     f \in {NoFiles, FilesP, FilesNested, FilesOpenIf}}

OomInputs ==
  {MkInput(ls, TRUE, NoDefines, FilesP, MallocData(k, st, FALSE, "crash")) :
     ls \in SeqsUpTo({L_IFNDEF, L_INCLUDE, L_LINE, L_X}, MaxDirLines),
     k \in 1..MaxFailAt,
     st \in BOOLEAN}

\* an included file whose last lexeme follows a directive
FilesTail == (<<"x">> :> MkSource(<<L_UNDEF, L_Y>>, FALSE))

ElseGroup == <<L_IFDEF, L_X, L_ELSE, L_Y, L_ENDIF>>

ElseGroupCommented == <<L_IFDEF_C, L_X, L_ELSE, L_Y, L_ENDIF>>

DefineScenario == <<L_DEFINE, L_IFDEF, L_X, L_ELSE, L_Y, L_ENDIF>>

ScenarioInputs ==
  {MkInput(DefineScenario, TRUE, NoDefines, NoFiles, NeverFails),
   MkInput(<<L_IFDEF, L_IFDEF, L_ELSE, L_X, L_ENDIF, L_ENDIF>>, TRUE, NoDefines, NoFiles, NeverFails),
   MkInput(<<L_IFDEF_C, L_X, L_ENDIF>>, TRUE, DefinesA, NoFiles, NeverFails),
   MkInput(<<L_IFDEF, L_X, L_ENDIF>>, TRUE, DefinesAB, NoFiles, NeverFails),
   MkInput(<<L_X, L_INCLUDE, L_Y, L_X>>, TRUE, NoDefines, FilesNested, NeverFails),
   MkInput(<<L_INCLUDE, L_X>>, TRUE, NoDefines, FilesTail, NeverFails)}
  \cup {MkInput(g, TRUE, d, NoFiles, NeverFails) :
          g \in {ElseGroup, ElseGroupCommented},
          d \in {NoDefines, DefinesA, DefinesAB}}

\* a predefine given twice
DefinesDup == <<Define(<<"A">>, <<"x">>), Define(<<"A">>, <<"y">>)>>

\* a file that includes itself, and two files that include each other
FilesSelf == (<<"x">> :> MkSource(<<L_INCLUDE>>, TRUE))

FilesMutual ==
  (<<"x">> :> MkSource(<<L_Y, <<"#","i","n","c","l","u","d","e"," ","\"","y","\"">>>>, TRUE))
  @@ (<<"y">> :> MkSource(<<L_INCLUDE>>, TRUE))

\* #error with no message, and with blanks after the message
L_ERROR_EMPTY == <<"#","e","r","r","o","r">>

L_ERROR_BLANK == <<"#","e","r","r","o","r"," ","b","a","d"," ","t","h","i","n","g"," ">>

\* #error with an unfinished comment after the message
L_ERROR_COMMENT == <<"#","e","r","r","o","r"," ","m"," ","/","*">>

\* #line with the number 0
L_LINE0 == <<"#","l","i","n","e"," ","0"," ","\"","f","\"">>

\* #if and #elif
L_IF == <<"#","i","f"," ","A","B">>

L_ELIF == <<"#","e","l","i","f"," ","A","B">>

\* included files that close or turn a conditional they did not open, and
\* one that opens and closes its own
FilesEndif == (<<"x">> :> MkSource(<<L_ENDIF, L_Y>>, TRUE))

FilesElse == (<<"x">> :> MkSource(<<L_ELSE, L_Y>>, TRUE))

FilesBalanced == (<<"x">> :> MkSource(<<L_IFDEF, L_Y, L_ENDIF, L_Y>>, TRUE))

\* #else and #endif with a lexeme after the keyword, and #ifdef with a blank
\* before the end of its line
L_ELSE_X == <<"#","e","l","s","e"," ","x">>

L_ENDIF_X == <<"#","e","n","d","i","f"," ","x">>

L_IFDEF_BLANK == <<"#","i","f","d","e","f"," ","A"," ">>

\* #error with a message as long as the room the failure string has after
\* the "#error " prefix
L_ERROR_LONG ==
  <<"#","e","r","r","o","r"," ">> \o [i \in 1..(FailStrSize - 7) |-> "m"]

EdgeInputs ==
  {MkInput(<<L_X>>, TRUE, DefinesDup, NoFiles, NeverFails),
   MkInput(<<L_ERROR_LONG>>, TRUE, NoDefines, NoFiles, NeverFails),
   MkInput(<<L_LINE0, L_X, L_ENDIF>>, TRUE, NoDefines, NoFiles, NeverFails),
   MkInput(<<L_IFNDEF, L_LINE0>>, TRUE, NoDefines, NoFiles, NeverFails)}
  \cup {MkInput(<<L_INCLUDE, L_X>>, TRUE, NoDefines, f, NeverFails) :
          f \in {FilesSelf, FilesMutual}}
  \cup {MkInput(ls, nl, d, NoFiles, NeverFails) :
          ls \in {<<L_IF, L_X, L_ELIF, L_ENDIF>>,
                  <<L_IFDEF, L_IF, L_DEFINE, L_ELIF, L_ENDIF>>},
          nl \in BOOLEAN,
          d \in {NoDefines, DefinesAB}}
  \cup {MkInput(<<L_IFNDEF, L_INCLUDE, L_X, L_ENDIF>>, TRUE, NoDefines, f,
                 NeverFails) :
          f \in {FilesEndif, FilesElse, FilesBalanced, FilesOpenIf}}
  \cup {MkInput(ls, nl, NoDefines, NoFiles, NeverFails) :
          ls \in {<<L_IFDEF, L_ELSE_X, L_ENDIF>>, <<L_IFNDEF, L_ELSE_X>>,
                  <<L_IFDEF, L_X, L_ENDIF_X>>, <<L_IFDEF_BLANK, L_ENDIF_X>>},
          nl \in BOOLEAN}
  \cup {MkInput(<<L_INCLUDE, L_X>>, TRUE, NoDefines, FilesSelf,
                 MallocData(k, st, FALSE, "crash")) :
          k \in 5..MaxFailAt, st \in BOOLEAN}
  \cup {MkInput(ls, nl, NoDefines, NoFiles, MallocData(0, FALSE, FALSE, u)) :
          ls \in {<<L_ERROR_EMPTY, L_X>>, <<L_X, L_ERROR_EMPTY>>},
          nl \in BOOLEAN,
          u \in {"crash", "garbage", "nothing"}}
  \cup {MkInput(ls, nl, NoDefines, NoFiles, NeverFails) :
          ls \in {<<L_ERROR_BLANK, L_X>>, <<L_X, L_ERROR_BLANK>>,
                  <<L_ERROR, L_ERROR>>, <<L_ERROR_COMMENT>>},
          nl \in BOOLEAN}

\* sources of braces, semicolons, words and a failing directive, for the
\* flatten pass; windows is the build's choice of line ending
L_OPEN == <<"{">>

L_CLOSE == <<"}">>

L_SEMI == <<";">>

FlatAlphabet == {L_OPEN, L_CLOSE, L_SEMI, L_X, L_ENDIF}

FlatInputs ==
  {[MkInput(ls, TRUE, NoDefines, NoFiles, NeverFails) EXCEPT !.windows = w] :
     ls \in SeqsUpTo(FlatAlphabet, MaxFlatLines),
     w \in BOOLEAN}
  \cup {MkInput(<<L_OPEN \o L_X \o L_SEMI \o L_CLOSE \o L_X>>, nl, NoDefines,
                 NoFiles, NeverFails) : nl \in BOOLEAN}

\* allocation failures that reach into the flatten pass, and an allocator
\* that gives the null pointer for a request of no bytes
FlatOomInputs ==
  {MkInput(ls, nl, NoDefines, NoFiles, MallocData(k, st, FALSE, "crash")) :
     ls \in {<<L_ENDIF, L_X>>, <<L_X>>, <<L_IFNDEF>>, <<L_X, L_IFNDEF>>},
     nl \in BOOLEAN,
     k \in 1..(MaxFailAt + 3),
     st \in BOOLEAN}
  \cup {MkInput(ls, TRUE, NoDefines, NoFiles,
                 MallocData(0, FALSE, TRUE, "crash")) :
          ls \in {<<L_X>>, <<L_ENDIF, L_X>>}}

Inputs ==
  CondInputs \cup DirInputs \cup OomInputs \cup ScenarioInputs \cup EdgeInputs
    \cup FlatInputs \cup FlatOomInputs

----------------------------------------------------------------------------
(* The state machine: start, then any number of next-token calls, then end; *)
(* or the whole flatten pass in one call.                                   *)

NoReturn == [token |-> "NONE", len |-> 0, bytes |-> NULL, frame |-> 0,
             start |-> 0, skipped |-> FALSE, filename |-> NULL, pos |-> 0,
             g_eois |-> 0]

\* what the caller sees of one call: the lexeme r, and what
\* preprocessor_sourcepos says right after it: p
Observed(r, p) ==
  [token |-> r.token, len |-> r.len, bytes |-> r.bytes,
   frame |-> r.frame, start |-> r.start, skipped |-> r.skipped,
   filename |-> p.filename, pos |-> p.pos, g_eois |-> 0]

\* the caller keeps the handle r.ctx when preprocessor_start gave one
Started(r) ==
  /\ ctx' = r.ctx
  /\ pc' = IF r.ok THEN "running" ELSE "failed"

\* the caller records what the call gave: ret is the last return, with the
\* number of EOIs returned in a row in g_eois, out the lexemes and errors
\* so far
Recorded(r, e) ==
  /\ ctx' = r.ctx
  /\ ret' = [e EXCEPT !.g_eois = IF r.token = "EOI" THEN ret.g_eois + 1 ELSE 0]
  /\ out' = IF r.token \in {"EOI", "CRASH", "DIVERGED"} THEN out
            ELSE Append(out, e)
  /\ pc' = IF r.token = "CRASH" THEN "crashed"
           ELSE IF r.token = "DIVERGED" THEN "diverged"
           ELSE "running"

Called(r) == Recorded(r, Observed(r, preprocessor_sourcepos(r.ctx)))

Init ==
  /\ input \in Inputs
  /\ ctx = NewContext(input.files, input.malloc_data)
  /\ ret = NoReturn
  /\ out = <<>>
  /\ pc = "new"
  /\ preprocessData = NoData

Start ==
  /\ pc = "new"
  /\ Started(preprocessor_start(input.fname, input.source, Len(input.source),
                                input.files, input.defines, input.malloc_data))
  /\ UNCHANGED <<input, ret, out, preprocessData>>

NextToken ==
  /\ pc = "running"
  /\ ret.g_eois < MaxEoiCalls
  /\ Called(nexttoken(ctx))
  /\ UNCHANGED <<input, preprocessData>>

End ==
  /\ pc = "running"
  /\ ctx' = preprocessor_end(ctx)
  /\ pc' = "ended"
  /\ UNCHANGED <<input, ret, out, preprocessData>>

\* the caller keeps what MOJOSHADER_preprocess gave; ctx is the context the
\* call made and tore down
Preprocessed(r) ==
  /\ preprocessData' = [kind |-> r.kind, retval |-> r.retval, g_log |-> r.g_log]
  /\ ctx' = r.pp
  /\ pc' = IF r.kind \in {"crashed", "diverged"} THEN r.kind ELSE "flattened"

Preprocess ==
  /\ pc = "new"
  /\ Preprocessed(MOJOSHADER_preprocess(input.fname, input.source,
                                        Len(input.source), input.defines,
                                        input.files, input.malloc_data,
                                        input.windows))
  /\ UNCHANGED <<input, ret, out>>

Next == Start \/ NextToken \/ End \/ Preprocess

Spec == Init /\ [][Next]_vars

----------------------------------------------------------------------------
(* The define table on its own: after the caller's defines were added as    *)
(* preprocessor_start adds them, any add_define, remove_define and           *)
(* find_define, on identifiers of which some share a chain.                  *)

TableSyms == {<<"A">>, <<"A", "B">>, <<"a", "b">>, <<"b", "a">>}

TableVals == {<<"x">>, <<"y">>}

TableInputs ==
  {MkInput(<<>>, FALSE, d, NoFiles, MallocData(k, FALSE, FALSE, "crash")) :
     d \in {NoDefines, DefinesA, DefinesBoth},
     k \in 0..MaxTableOps}

\* ret is the last operation: what it was asked, what it gave, the table
\* before it, and the number of operations so far
NoOperation ==
  [op |-> "none", sym |-> <<>>, val |-> NULL, ok |-> TRUE, before |-> <<>>,
   n |-> 0]

Operated(op, sym, val, ok, c) ==
  /\ ctx' = c
  /\ ret' = [op |-> op, sym |-> sym, val |-> val, ok |-> ok,
             before |-> ctx.define_hashtable, n |-> ret.n + 1]
  /\ UNCHANGED <<input, out, pc, preprocessData>>

TableInit ==
  /\ input \in TableInputs
  /\ ctx = AddDefines(NewContext(input.files, input.malloc_data),
                      input.defines).ctx
  /\ ret = NoOperation
  /\ out = <<>>
  /\ pc = "table"
  /\ preprocessData = NoData

\* the result of add_define goes to the caller: a
AddReturned(sym, val, a) == Operated("add", sym, val, a.ok, a.ctx)

TableAdd ==
  /\ pc = "table"
  /\ ret.n < MaxTableOps
  /\ \E sym \in TableSyms : \E val \in TableVals :
       AddReturned(sym, val, add_define(ctx, sym, val))

\* the result of remove_define goes to the caller: r
RemoveReturned(sym, r) == Operated("remove", sym, NULL, r.ok, r.ctx)

TableRemove ==
  /\ pc = "table"
  /\ ret.n < MaxTableOps
  /\ \E sym \in TableSyms : RemoveReturned(sym, remove_define(ctx, sym))

TableFind ==
  /\ pc = "table"
  /\ ret.n < MaxTableOps
  /\ \E sym \in TableSyms :
       Operated("find", sym, find_define(ctx, sym),
                find_define(ctx, sym) # NULL, ctx)

TableNext == Next \/ TableAdd \/ TableRemove \/ TableFind

\* the program as in Spec, and the table on its own
TableSpec == (Init \/ TableInit) /\ [][TableNext]_vars

----------------------------------------------------------------------------
(* The output buffer on its own: add_to_buffer with data that ends short of *)
(* a chunk boundary, on one and past one, and flatten_buffer after it.      *)

\* the appends in a row
MaxBufferOps == 3

\* the byte the n-th append is made of
BufferBytes == <<"a", "b", "c", "d", "e", "f">>

\* lengths of the data of one append
BufferLens == {1, BUFFER_LEN - 1, BUFFER_LEN, 2 * BUFFER_LEN + 1}

\* len bytes, all of them byte
Filled(byte, len) == [i \in 1..len |-> byte]

BufferInputs ==
  {MkInput(<<>>, FALSE, NoDefines, NoFiles, MallocData(k, FALSE, FALSE, "crash")) :
     k \in 0..2}

\* ret is the last operation on the buffer: what it gave, the appends made
\* so far as [byte, len], and their number
NoAppend == [op |-> "none", ok |-> TRUE, bytes |-> NULL, ops |-> <<>>, n |-> 0]

BufferInit ==
  /\ input \in BufferInputs
  /\ ctx = NewContext(input.files, input.malloc_data)
  /\ ret = NoAppend
  /\ out = <<>>
  /\ pc = "buffer"
  /\ preprocessData = FlattenState(ctx, FALSE)

\* the result of add_to_buffer goes to the caller: a
Appended(byte, len, a) ==
  /\ preprocessData' = a.f
  /\ ctx' = a.f.pp
  /\ ret' = [op |-> "add", ok |-> a.ok, bytes |-> NULL,
             ops |-> Append(ret.ops, [byte |-> byte, len |-> len]),
             n |-> ret.n + 1]
  /\ UNCHANGED <<input, out, pc>>

BufferAdd ==
  /\ pc = "buffer"
  /\ ret.ok /\ ret.op # "flatten"
  /\ ret.n < MaxBufferOps
  /\ \E len \in BufferLens :
       Appended(BufferBytes[(ret.n % Len(BufferBytes)) + 1], len,
                add_to_buffer(preprocessData,
                              Filled(BufferBytes[(ret.n % Len(BufferBytes)) + 1],
                                     len)))

\* the result of flatten_buffer goes to the caller: fb
Flat(fb) ==
  /\ ctx' = fb.ctx
  /\ preprocessData' = [preprocessData EXCEPT !.pp = fb.ctx]
  /\ ret' = [ret EXCEPT !.op = "flatten", !.ok = fb.ptr # 0, !.bytes = fb.bytes]
  /\ UNCHANGED <<input, out, pc>>

BufferFlatten ==
  /\ pc = "buffer"
  /\ ret.ok /\ ret.op # "flatten"
  /\ Flat(flatten_buffer(preprocessData))

BufferNext == Next \/ BufferAdd \/ BufferFlatten

\* the program as in Spec, and the buffer on its own
BufferSpec == (Init \/ BufferInit) /\ [][BufferNext]_vars

----------------------------------------------------------------------------
(* Properties of the token stream. *)

\* an ordinary lexeme with these bytes has been returned
Emitted(b) ==
  \E i \in DOMAIN out : out[i].token # "PREPROCESSING_ERROR" /\ out[i].bytes = b

\* the errors returned so far
ErrorsOut == {i \in DOMAIN out : out[i].token = "PREPROCESSING_ERROR"}

\* the call that just returned found the include stack empty
AtEnd == pc = "running" /\ ret.token = "EOI"

\* the value bound to sym in a define table
Lookup(table, sym) == find_define([define_hashtable |-> table], sym)

\* what the directive asks a new frame's skipping flag to be
AskedSkipping(f) ==
  f.g_outer \/ (IF f.type = "PP_IFDEF" THEN ~f.g_defined ELSE f.g_defined)

(* C1: a frame pushed by `#ifdef ID` / `#ifndef ID` is skipping iff the      *)
(* enclosing frame is skipping or, for #ifdef, ID is absent from the define  *)
(* table, for #ifndef, ID is present, ID being the complete identifier of    *)
(* the directive; and with ID predefined and no enclosing skip the tokens of *)
(* the `#ifdef ID` arm are returned.                                         *)
C1_IfdefSkipping ==
  /\ pc = "running" =>
       \A i \in DOMAIN ctx.include_stack :
         \A j \in DOMAIN ctx.include_stack[i].conditional_stack :
           ctx.include_stack[i].conditional_stack[j].type \in {"PP_IFDEF", "PP_IFNDEF"}
             => ctx.include_stack[i].conditional_stack[j].skipping
                  = AskedSkipping(ctx.include_stack[i].conditional_stack[j])
  /\ (AtEnd /\ input.lines = <<L_IFDEF, L_X, L_ENDIF>> /\ input.defines = DefinesAB)
       => Emitted(L_X)

(* C2: skip containment: no lexeme is returned from a region some enclosing  *)
(* conditional of which, at any depth, is skipping, and no #include, #line,  *)
(* #undef or #error of such a region is carried out.                         *)
C2_SkipContainment ==
  pc = "running" =>
    /\ \A i \in DOMAIN out : ~out[i].skipped
    /\ ctx.g_skipped_effects = 0

\* the root source is one #ifdef ... #else ... #endif group around X and Y
IsElseGroup(lines) == lines \in {ElseGroup, ElseGroupCommented}

(* C3: else exclusivity: of an `#ifdef ID` ... `#else` ... `#endif` group    *)
(* the tokens of exactly one arm are returned.                               *)
C3_ElseExclusivity ==
  (AtEnd /\ IsElseGroup(input.lines)) => (Emitted(L_X) # Emitted(L_Y))

\* one `#undef ID` carried out: ID is gone, the other bindings are as they
\* were, no error is latched
Undefined(u) ==
  /\ Lookup(u.after, u.sym) = NULL
  /\ \A i \in DOMAIN input.defines :
       input.defines[i].identifier # u.sym
         => Lookup(u.after, input.defines[i].identifier)
              = Lookup(u.before, input.defines[i].identifier)
  /\ ~u.isfail

(* C4: after `#undef ID` in a non-skipping region the define table has no    *)
(* binding for ID, the complete identifier of the directive, every other     *)
(* binding is unchanged and no error is latched.                             *)
C4_UndefRemoves ==
  \A i \in DOMAIN ctx.g_undefs : Undefined(ctx.g_undefs[i])

\* the root source is scenario 1: #define AB 1, then a group on AB
IsDefineScenario == input.lines = DefineScenario /\ input.defines = NoDefines

(* C5 as the spec states it: a `#define NAME text` line binds NAME, so that  *)
(* a later `#ifdef NAME ... #else ... #endif` emits the first arm and not    *)
(* the #else arm.                                                            *)
C5_DefineBinds ==
  (AtEnd /\ IsDefineScenario) => (Emitted(L_X) /\ ~Emitted(L_Y))

\* every binding of the define table is one of the caller's predefines
OnlyPredefines ==
  \A h \in DOMAIN ctx.define_hashtable :
    \A k \in DOMAIN ctx.define_hashtable[h] :
      \E i \in DOMAIN input.defines :
        ctx.define_hashtable[h][k] = input.defines[i]

(* C5 amended: a `#define NAME text` line creates no binding: the define     *)
(* table only ever holds predefines of the caller, the `#define` lexeme is   *)
(* returned to the caller as an ordinary token, and in scenario 1 the stream *)
(* yields `#define`, the name, the text and the #else arm, not the first     *)
(* arm.                                                                      *)
C5_DefineInert ==
  /\ pc = "running" => OnlyPredefines
  /\ (AtEnd /\ IsDefineScenario) =>
       /\ \E i \in DOMAIN out : out[i].token = "PP_DEFINE"
       /\ Emitted(<<"A","B">>)
       /\ Emitted(<<"1">>)
       /\ Emitted(L_Y)
       /\ ~Emitted(L_X)

\* C5: scenario 1 has run to its end
C5_Witness == AtEnd /\ IsDefineScenario /\ Emitted(L_Y)

\* the conditionals open after these lines, an unmatched #endif left aside
RECURSIVE OpenAfter(_, _)
OpenAfter(lines, depth) ==
  IF lines = <<>> THEN depth
  ELSE IF Head(lines) \in {L_IFDEF, L_IFNDEF, L_IFDEF_C}
    THEN OpenAfter(Tail(lines), depth + 1)
  ELSE IF Head(lines) = L_ENDIF
    THEN OpenAfter(Tail(lines), IF depth > 0 THEN depth - 1 ELSE 0)
  ELSE OpenAfter(Tail(lines), depth)

\* the root source holds conditional directives and X only, and no file
IsCondUnit ==
  /\ \A i \in DOMAIN input.lines : input.lines[i] \in CondAlphabet \cup {L_IFDEF_C}
  /\ input.malloc_data = NeverFails

Unterminated(e) ==
  /\ e.token = "PREPROCESSING_ERROR"
  /\ e.bytes \in {<<"Unterminated #ifdef">>, <<"Unterminated #ifndef">>,
                  <<"Unterminated #else">>, <<"Unterminated #if">>,
                  <<"Unterminated #elif">>}

(* C6: conditional balance: a unit that still has k conditionals open at its *)
(* end of input gets exactly k Unterminated errors; a unit whose #ifdef and  *)
(* #ifndef all have their #endif gets none.                                  *)
C6_Balance ==
  (AtEnd /\ IsCondUnit) =>
    Cardinality({i \in DOMAIN out : Unterminated(out[i])})
      = OpenAfter(input.lines, 0)

(* C7: error latch protocol: the latch is empty whenever next_token has      *)
(* returned; no error was latched over a pending one; every error latched    *)
(* has been returned as a PREPROCESSING_ERROR lexeme exactly once; and an    *)
(* error is returned with the top frame standing where it stood when the     *)
(* error was latched, so that no source lexeme was lexed in between and      *)
(* tokenization goes on from there.                                          *)
C7_ErrorLatch ==
  pc = "running" =>
    /\ ~ctx.isfail
    /\ ctx.g_lost = 0
    /\ ctx.g_delivered = ctx.g_fails
    /\ Cardinality(ErrorsOut) = ctx.g_fails
    /\ ret.token = "PREPROCESSING_ERROR" =>
         /\ ctx.include_stack # <<>>
         /\ ctx.include_stack[1].g_frame = ret.frame
         /\ ctx.include_stack[1].source = ret.start

\* C7: an error was returned and an ordinary lexeme after it
C7_Witness ==
  /\ pc = "running"
  /\ \E i \in DOMAIN out : \E j \in DOMAIN out :
       /\ i < j
       /\ out[i].token = "PREPROCESSING_ERROR"
       /\ out[j].token # "PREPROCESSING_ERROR"

(* C8: out-of-memory latch: a next_token call made when an allocation has    *)
(* failed returns EOI, and out_of_memory stays true.                         *)
C8_OomLatch ==
  [][(pc = "running" /\ ctx.out_of_memory)
       => (ctx'.out_of_memory /\ (pc' = "running" => ret'.token = "EOI"))]_vars

\* frame f was pushed by an #include of frame p, or of a frame below which
\* p is; n bounds the depth
RECURSIVE Within(_, _, _)
Within(f, p, n) ==
  /\ n > 0
  /\ \E k \in DOMAIN ctx.g_includes :
       /\ ctx.g_includes[k].child = f
       /\ \/ ctx.g_includes[k].parent = p
          \/ Within(ctx.g_includes[k].parent, p, n - 1)

\* no lexeme starts in mem at or after offset from
NoLexemeLeft(mem, from) ==
  /\ SkipBlank(mem, from, Len(mem), 0).p >= Len(mem)
  /\ ~SkipBlank(mem, from, Len(mem), 0).incomplete

\* the text holds no conditional directive
NoConditional(mem) ==
  \A q \in 1..(Len(mem) - 2) :
    ~(mem[q] = "#" /\ mem[q + 1] = "i" /\ mem[q + 2] = "f")

(* C9: include ordering: every lexeme of an included file, and of the files  *)
(* it includes, is returned before any lexeme of the including file that     *)
(* follows the #include line; an included file is popped with no lexeme left *)
(* unreturned; the including file waits at the end of its #include           *)
(* directive; the lexemes of each file are returned in source order.         *)
C9_IncludeOrdering ==
  pc = "running" =>
    /\ \A k \in DOMAIN ctx.g_includes :
         \A i \in DOMAIN out : \A j \in DOMAIN out :
           ( /\ out[i].token # "PREPROCESSING_ERROR"
             /\ out[j].token # "PREPROCESSING_ERROR"
             /\ Within(out[i].frame, ctx.g_includes[k].parent,
                       Len(ctx.g_includes))
             /\ \/ out[i].frame = ctx.g_includes[k].child
                \/ Within(out[i].frame, ctx.g_includes[k].child,
                          Len(ctx.g_includes))
             /\ out[j].frame = ctx.g_includes[k].parent
             /\ out[j].start >= ctx.g_includes[k].resume )
           => i < j
    /\ \A k \in DOMAIN ctx.g_popped :
         ( /\ \E e \in DOMAIN ctx.g_includes :
                ctx.g_includes[e].child = ctx.g_popped[k].frame
           /\ NoConditional(ctx.g_popped[k].mem) )
           => NoLexemeLeft(ctx.g_popped[k].mem, ctx.g_popped[k].source)
    /\ \A i \in DOMAIN out : \A j \in DOMAIN out :
         ( /\ i < j
           /\ out[i].token # "PREPROCESSING_ERROR"
           /\ out[j].token # "PREPROCESSING_ERROR"
           /\ out[i].frame = out[j].frame )
         => out[i].start < out[j].start

\* the name an include frame was pushed under, when no #line renamed it
PushedName(f) ==
  IF \E k \in DOMAIN ctx.g_includes : ctx.g_includes[k].child = f
    THEN (CHOOSE e \in Range(ctx.g_includes) : e.child = f).name
    ELSE RootName

\* no #line directive is in the root source (the files of the resolvers
\* have none)
Unrenumbered ==
  \A i \in DOMAIN input.lines : input.lines[i] \notin {L_LINE, L_LINE0}

(* C10: source position: right after next_token returns a lexeme or an       *)
(* error, source_position gives the interned filename and the line of the    *)
(* unit it came from, which is the top include frame: the name the unit was  *)
(* pushed under or its last #line gave it, and one more than the newlines    *)
(* consumed from the unit when no #line renumbered it and no #error was cut  *)
(* short by an unfinished comment; and (null, 0) once the include stack is   *)
(* empty.                                                                    *)
C10_SourcePosition ==
  (pc = "running" /\ ret.token # "NONE") =>
    IF ret.token = "EOI"
      THEN ctx.include_stack = <<>> /\ ret.filename = NULL /\ ret.pos = 0
      ELSE /\ ctx.include_stack # <<>>
           /\ ctx.include_stack[1].g_frame = ret.frame
           /\ ret.pos = ctx.include_stack[1].line
           /\ ret.filename = FilenameAt(ctx, ctx.include_stack[1].filename)
           /\ (/\ Unrenumbered
               /\ \A i \in DOMAIN input.lines :
                    input.lines[i] # L_ERROR_COMMENT) =>
                /\ ret.filename = PushedName(ret.frame)
                /\ ret.pos = 1 + CountNewlines(ctx.include_stack[1].mem, 0,
                                               ctx.include_stack[1].source)

\* C10: a lexeme of an included file was returned, and after it a lexeme of
\* the file that includes it
C10_Witness ==
  /\ pc = "running"
  /\ ret.token \notin {"NONE", "EOI", "PREPROCESSING_ERROR"}
  /\ ret.filename = RootName
  /\ ret.pos > 1
  /\ \E i \in DOMAIN out : out[i].filename = <<"x">> /\ out[i].pos = 1

\* the buffers the resolver handed out: a buffer is named by the number of
\* the open call that gave it
Opened == {k \in DOMAIN ctx.g_open_calls : ctx.g_open_calls[k].ok}

\* the buffer is the source of an included frame on the include stack
OnStack(k) ==
  \E i \in DOMAIN ctx.include_stack :
    ctx.include_stack[i].included /\ ctx.include_stack[i].source_base = k

(* C11: include resource pairing: only buffers the resolver handed out are   *)
(* closed, never the root source, none twice; a buffer handed out is either  *)
(* the source of an included frame on the stack or was closed, never both;   *)
(* and after end() every buffer handed out was closed.                       *)
C11_IncludePairing ==
  pc \in {"running", "ended", "flattened"} =>
    /\ \A i \in DOMAIN ctx.g_closed : ctx.g_closed[i] \in Opened
    /\ \A i \in DOMAIN ctx.g_closed : \A j \in DOMAIN ctx.g_closed :
         i # j => ctx.g_closed[i] # ctx.g_closed[j]
    /\ \A k \in Opened : (k \in Range(ctx.g_closed)) # OnStack(k)
    /\ \A i \in DOMAIN ctx.include_stack :
         ~ctx.include_stack[i].included => ctx.include_stack[i].source_base = 0
    /\ pc \in {"ended", "flattened"} => Opened \subseteq Range(ctx.g_closed)

\* C11: end() was called with an included frame still on the stack, after
\* another included frame had been popped at its end of input
C11_Witness ==
  /\ pc = "ended"
  /\ Len(ctx.g_closed) >= 2
  /\ \E k \in DOMAIN ctx.g_popped : \E e \in DOMAIN ctx.g_includes :
       /\ ctx.g_includes[e].child = ctx.g_popped[k].frame
       /\ ctx.g_popped[k].source < Len(ctx.g_popped[k].mem)

\* one of the allocations asked for so far was refused
AllocFailed == \E n \in 1..ctx.g_nalloc : AllocFails(input.malloc_data, n)

\* the caller's defines name an identifier twice
DuplicateDefine ==
  \E i \in DOMAIN input.defines : \E j \in DOMAIN input.defines :
    i < j /\ input.defines[i].identifier = input.defines[j].identifier

\* the message says that something is already defined
AlreadyDefined(bytes) == \E i \in DOMAIN bytes : bytes[i] = "' already defined"

(* C12: an identifier given twice in the predefines comes to the consumer as  *)
(* a PREPROCESSING_ERROR lexeme saying `already defined`, and in the error    *)
(* list of preprocess(); start fails, and preprocess() returns the shared     *)
(* out-of-memory sentinel, only when an allocation was refused.               *)
C12_AlreadyDefinedSurfaced ==
  /\ pc = "failed" => AllocFailed
  /\ (pc = "flattened" /\ preprocessData.kind = "sentinel") => AllocFailed
  /\ (pc = "running" /\ ret.token = "EOI" /\ DuplicateDefine /\ ~AllocFailed) =>
       \E i \in ErrorsOut : AlreadyDefined(out[i].bytes)
  /\ (pc = "flattened" /\ DuplicateDefine /\ ~AllocFailed) =>
       \E i \in DOMAIN preprocessData.retval.errors :
         AlreadyDefined(preprocessData.retval.errors[i].error)

\* what ends the text of a directive that starts at offset p of buf: the
\* offset of the newline, of the comment that is never closed, or the end
RECURSIVE Terminator(_, _)
Terminator(buf, p) ==
  IF p >= Len(buf) THEN p
  ELSE IF buf[p + 1] = "\n" THEN p
  ELSE IF buf[p + 1] = "/" /\ p + 1 < Len(buf) /\ buf[p + 2] = "*"
    THEN IF FindCommentEnd(buf, p + 2, Len(buf)) = Len(buf) THEN p
         ELSE Terminator(buf, FindCommentEnd(buf, p + 2, Len(buf)) + 2)
  ELSE Terminator(buf, ScanUntil(buf, p + 1, Len(buf), {"\n", "/"}))

\* last offset q in from..to such that only blanks lie in buf[q + 1 .. to]
RECURSIVE TrimRight(_, _, _)
TrimRight(buf, from, to) ==
  IF to > from /\ buf[to] \in {" ", "\t", "\r"} THEN TrimRight(buf, from, to - 1)
  ELSE to

\* the message of an #error whose keyword ends at offset e of buf
Message(buf, e) ==
  SubSeq(buf, ScanWhile(buf, e, Terminator(buf, e), {" ", "\t", "\r"}) + 1,
         TrimRight(buf, e, Terminator(buf, e)))

\* the call about to be made starts at an #error of a region that is not
\* skipped: lx is what the lexer gives from the top frame
AtErrorDirective(lx) ==
  /\ lx.token = "PP_ERROR"
  /\ ~TopSkipping(Top(ctx).conditional_stack)

\* the call returned the error of the #error lexed as lx, and left the top
\* frame before the terminator
ErrorDirectiveReturned(lx) ==
  /\ pc' = "running"
  /\ ret'.token = "PREPROCESSING_ERROR"
  /\ ret'.bytes = <<"#error ">> \o Message(lx.state.mem, lx.state.source)
  /\ ret'.pos = lx.state.line
  /\ ctx'.include_stack # <<>>
  /\ Top(ctx').source <= Terminator(lx.state.mem, lx.state.source)
  /\ TrimRight(lx.state.mem, Top(ctx').source,
               Terminator(lx.state.mem, lx.state.source)) = Top(ctx').source

\* the last call returned the error of an #error
ErrorDirectiveJustReturned ==
  /\ pc = "running"
  /\ ret.token = "PREPROCESSING_ERROR"
  /\ ret.bytes # <<>>
  /\ ret.bytes[1] = "#error "
  /\ ctx.include_stack # <<>>

\* the call returned what ended the directive, at offset t of buf
TerminatorReturned(buf, t) ==
  IF t >= Len(buf) THEN TRUE
  ELSE IF buf[t + 1] = "\n"
    THEN pc' = "running" /\ ret'.token = "\n" /\ ret'.start = t
  ELSE /\ pc' = "running"
       /\ ret'.token = "PREPROCESSING_ERROR"
       /\ ret'.bytes = <<"Incomplete multiline comment">>

(* C13: a next_token call that starts at `#error <text>` of a region that is  *)
(* not skipped returns PREPROCESSING_ERROR with the bytes `#error ` and the   *)
(* message up to the terminator (newline, end of input or unfinished          *)
(* comment), whatever the message, the empty one too; the error is on the     *)
(* directive's own line; the terminator is left in the source, and the next   *)
(* call returns it.                                                           *)
C13_ErrorDirective ==
  /\ [][(pc = "running" /\ pc' # "ended" /\ ctx.include_stack # <<>>
          /\ AtErrorDirective(preprocessor_internal_lexer(Top(ctx))))
         => ErrorDirectiveReturned(preprocessor_internal_lexer(Top(ctx)))]_vars
  /\ [][(ErrorDirectiveJustReturned /\ pc' # "ended")
         => TerminatorReturned(Top(ctx).mem,
                               Terminator(Top(ctx).mem, Top(ctx).source))]_vars

\* the include stack is empty and no error is latched
Exhausted == ctx.include_stack = <<>> /\ ~ctx.isfail

\* what a next_token call made now gives: r
GivesEoi(r) ==
  /\ r.token = "EOI"
  /\ r.len = 0
  /\ r.bytes = NULL
  /\ r.ctx = ctx

(* C14: end of input is absorbing: EOI is returned only with the include     *)
(* stack empty and no error latched; in such a state a next_token call gives *)
(* (null, 0, EOI) and leaves the context as it is, so that every further     *)
(* call does the same and no lexeme follows the first EOI.                   *)
C14_EoiAbsorbing ==
  /\ []((pc = "running" /\ ret.token = "EOI") =>
          (Exhausted /\ ret.len = 0 /\ ret.bytes = NULL))
  /\ []((pc = "running" /\ Exhausted) => GivesEoi(nexttoken(ctx)))
  /\ [][(pc = "running" /\ pc' = "running" /\ (ret.token = "EOI" \/ Exhausted))
         => (ret'.token = "EOI" /\ ctx' = ctx /\ out' = out)]_vars

\* C14: next_token was called again after it had returned EOI, at the end of
\* a source that gave lexemes
C14_Witness ==
  /\ pc = "running"
  /\ ret.token = "EOI"
  /\ ret.g_eois > 1
  /\ out # <<>>

\* the bytes of the buffers the resolver handed out in these calls
RECURSIVE OpenedBytes(_)
OpenedBytes(calls) ==
  IF calls = <<>> THEN 0
  ELSE (IF Head(calls).ok THEN Len(input.files[Head(calls).filename]) ELSE 0)
       + OpenedBytes(Tail(calls))

(* C15: termination: every next_token call returns, also when an included    *)
(* file includes itself or its includer; and the lexemes returned are no     *)
(* more than the bytes of the root source and of the buffers handed out plus *)
(* the errors latched, so that a finite input gives finitely many lexemes    *)
(* before EOI.                                                               *)
C15_Termination ==
  /\ pc # "diverged"
  /\ pc = "running" =>
       Len(out) <= Len(input.source) + OpenedBytes(ctx.g_open_calls)
                     + ctx.g_fails

\* a call that never returns is met only with an allocator that never fails
DivergedOnlyUnfailing == pc = "diverged" => input.malloc_data.failAt = 0

(* C16: in the flatten pass, when an allocation was refused at any point of  *)
(* the run, in the preprocessor or in the pass itself, the result is the     *)
(* shared out-of-memory sentinel and never an ordinary result.               *)
C16_OomSentinel ==
  (pc = "flattened" /\ AllocFailed) =>
    /\ preprocessData.kind = "sentinel"
    /\ preprocessData.retval = out_of_mem_data_preprocessor

\* the error records of the PREPROCESSING_ERROR lexemes of a log of the
\* token stream, in the order of the log
RECURSIVE ErrorsOf(_)
ErrorsOf(log) ==
  IF log = <<>> THEN <<>>
  ELSE (IF Head(log).token = "PREPROCESSING_ERROR"
          THEN <<[error |-> Head(log).bytes, filename |-> Head(log).filename,
                  error_position |-> Head(log).pos]>>
          ELSE <<>>)
       \o ErrorsOf(Tail(log))

\* what the turns of a log wrote, in the order of the log
RECURSIVE WroteOf(_)
WroteOf(log) ==
  IF log = <<>> THEN <<>> ELSE Head(log).wrote \o WroteOf(Tail(log))

\* MOJOSHADER_preprocess gave an ordinary result
Ordinarily == pc = "flattened" /\ preprocessData.kind = "data"

(* C17: in an ordinary result of the flatten pass, the error list holds      *)
(* exactly the PREPROCESSING_ERROR lexemes the token stream gave, in their    *)
(* order, each with its bytes and the filename and line of the top include   *)
(* frame when it was delivered; error_count is their number; and the output  *)
(* holds what the other tokens wrote and nothing of the errors.              *)
C17_ErrorList ==
  Ordinarily =>
    /\ preprocessData.retval.errors = ErrorsOf(preprocessData.g_log)
    /\ preprocessData.retval.error_count = Len(preprocessData.retval.errors)
    /\ \A i \in DOMAIN preprocessData.g_log :
         preprocessData.g_log[i].token = "PREPROCESSING_ERROR" =>
           preprocessData.g_log[i].wrote = <<>>
    /\ preprocessData.retval.output = WroteOf(preprocessData.g_log)
    /\ preprocessData.retval.output_len = Len(preprocessData.retval.output)

\* C17: an ordinary result with two errors of different lines and some output
C17_Witness ==
  /\ Ordinarily
  /\ preprocessData.retval.error_count >= 2
  /\ preprocessData.retval.errors[1].error_position
       < preprocessData.retval.errors[2].error_position
  /\ preprocessData.retval.output # <<>>

\* the line ending of this build
LineEnding == IF input.windows THEN <<"\r", "\n">> ELSE <<"\n">>

\* n spaces
RECURSIVE Blanks(_)
Blanks(n) == IF n = 0 THEN <<>> ELSE <<" ">> \o Blanks(n - 1)

\* the output is empty or ends with a line ending
FreshLine(output) ==
  \/ output = <<>>
  \/ /\ Len(output) >= Len(LineEnding)
     /\ SubSeq(output, Len(output) - Len(LineEnding) + 1, Len(output))
          = LineEnding

\* the indent level after a `}` met at level n
Floored(n) == IF n > 0 THEN n - 1 ELSE 0

\* the turns of the flatten loop
Turns == preprocessData.g_log

(* C18: in the flatten pass the indent level is never negative; a `}` takes  *)
(* one off the level unless it is 0, and is written on a line of its own:    *)
(* whatever came before it, the output before it is empty or ends with a     *)
(* line ending, and the turn writes 4 spaces per level, the `}` and a line   *)
(* ending.                                                                   *)
C18_CloseBrace ==
  Ordinarily =>
    \A i \in DOMAIN Turns :
      /\ Turns[i].indent >= 0
      /\ Turns[i].token = "}" =>
           /\ i < Len(Turns) => Turns[i + 1].indent = Floored(Turns[i].indent)
           /\ FreshLine(Turns[i].before)
           /\ Turns[i].wrote =
                Blanks(4 * Floored(Turns[i].indent)) \o <<"}">> \o LineEnding

(* C19: in the flatten pass a token other than a raw newline, `{`, `}`, `;`  *)
(* and PREPROCESSING_ERROR is written after exactly the current indent (4    *)
(* spaces per level) when the output so far is empty or ends with a line     *)
(* ending, and after exactly one space otherwise; a raw newline and a        *)
(* PREPROCESSING_ERROR write nothing and leave the next token as fresh as it *)
(* was.                                                                      *)
C19_TokenSpacing ==
  Ordinarily =>
    \A i \in DOMAIN Turns :
      IF Turns[i].token \in {"\n", "PREPROCESSING_ERROR"}
        THEN /\ Turns[i].wrote = <<>>
             /\ i < Len(Turns) => Turns[i + 1].nl = Turns[i].nl
      ELSE IF Turns[i].token \in {"{", "}", ";"} THEN TRUE
      ELSE Turns[i].wrote =
             (IF FreshLine(Turns[i].before) THEN Blanks(4 * Turns[i].indent)
              ELSE <<" ">>) \o Turns[i].bytes

\* no two nodes of a chain have the same identifier, and every node is in the
\* chain of its hash
Unique(table) ==
  \A h \in DOMAIN table :
    /\ \A i \in DOMAIN table[h] : \A j \in DOMAIN table[h] :
         i # j => table[h][i].identifier # table[h][j].identifier
    /\ \A i \in DOMAIN table[h] : hash_define(table[h][i].identifier) = h

\* the last operation on the table was an add of an identifier that was bound
AddedBound ==
  /\ pc = "table"
  /\ ret.op = "add"
  /\ Lookup(ret.before, ret.sym) # NULL

(* C20: the define table holds at most one binding per identifier, after any *)
(* sequence of add, remove and find, and in every state of the program with  *)
(* its predefines and #undef directives; add(id, text) for an identifier     *)
(* that is bound fails, latches `'id' already defined` and leaves the table  *)
(* as it was, the text of id too.                                            *)
C20_DefineUnique ==
  /\ Unique(ctx.define_hashtable)
  /\ AddedBound =>
       /\ ~ret.ok
       /\ ctx.isfail
       /\ ctx.failstr = <<"'">> \o ret.sym \o <<"' already defined">>
       /\ ctx.define_hashtable = ret.before
       /\ find_define(ctx, ret.sym) = Lookup(ret.before, ret.sym)

\* C20: an identifier bound to one text, in a chain it shares with another
\* identifier, was added again with another text
C20_Witness ==
  /\ AddedBound
  /\ Lookup(ret.before, ret.sym) # ret.val
  /\ Len(Bucket(ctx, hash_define(ret.sym))) >= 2

\* the last operation on the table left find as it was for every identifier
\* but its own
OthersKept ==
  \A s \in TableSyms \ {ret.sym} :
    find_define(ctx, s) = Lookup(ret.before, s)

(* C21: define round-trip: after an add(id, text) that succeeded find(id)     *)
(* gives text; after remove(id) find(id) is absent, and remove gave true     *)
(* exactly when id was bound; and an add or remove of id leaves find as it   *)
(* was for every other identifier, those of the same chain too.              *)
C21_DefineRoundTrip ==
  pc = "table" =>
    /\ (ret.op = "add" /\ ret.ok) => find_define(ctx, ret.sym) = ret.val
    /\ ret.op = "remove" =>
         /\ find_define(ctx, ret.sym) = NULL
         /\ ret.ok = (Lookup(ret.before, ret.sym) # NULL)
    /\ ret.op \in {"add", "remove"} => OthersKept

\* C21: an identifier was removed from a chain that holds another one, which
\* stays bound
C21_Witness ==
  /\ pc = "table"
  /\ ret.op = "remove"
  /\ ret.ok
  /\ hash_define(ret.sym) \in DOMAIN ret.before
  /\ Len(ret.before[hash_define(ret.sym)]) >= 2
  /\ \E s \in TableSyms \ {ret.sym} :
       hash_define(s) = hash_define(ret.sym) /\ find_define(ctx, s) # NULL

\* the cursor of an include frame lies between the start of its last lexeme
\* and the end of its buffer, and bytes_left is what lies after the cursor
Accounted(state) ==
  /\ state.token <= state.source
  /\ state.source <= Len(state.mem)
  /\ state.bytes_left = Len(state.mem) - state.source

(* C22: cursor accounting: between next_token calls every include frame has  *)
(* token <= cursor <= end of buffer and bytes_left = length - cursor, the    *)
(* peeks of require_newline and of the #error handler included; and a frame  *)
(* is popped at end of input only with its cursor at the end of its buffer,  *)
(* so that no byte of a unit is left out.                                    *)
C22_CursorAccounting ==
  pc = "running" =>
    /\ \A i \in DOMAIN ctx.include_stack : Accounted(ctx.include_stack[i])
    /\ \A i \in DOMAIN ctx.g_popped :
         ctx.g_popped[i].source = Len(ctx.g_popped[i].mem)

(* C23: line invariant: every include frame has line >= 1, whatever peeks,   *)
(* #error directives and accepted #line directives came before; and where no *)
(* #line renumbered it, the line of a frame is one more than the newlines of *)
(* its source before the cursor.                                             *)
C23_LineInvariant ==
  pc = "running" =>
    \A i \in DOMAIN ctx.include_stack :
      /\ ctx.include_stack[i].line >= 1
      /\ Unrenumbered =>
           ctx.include_stack[i].line =
             1 + CountNewlines(ctx.include_stack[i].mem, 0,
                               ctx.include_stack[i].source)

\* C24: for an #error message of any length the latched string fits in the
\* failure string of FailStrSize bytes: the prefix and the copied bytes end
\* at index FailStrSize - 1 at most, where the terminating zero is written
C24_FailStrBound == ctx.g_failstr_end <= FailStrSize - 1

\* the directive whose keyword ends at offset p of mem is followed by the
\* end of the line, the end of the buffer or a comment that is never closed
EndsDirective(mem, p) ==
  \/ SkipBlank(mem, p, Len(mem), 0).incomplete
  \/ SkipBlank(mem, p, Len(mem), 0).p >= Len(mem)
  \/ mem[SkipBlank(mem, p, Len(mem), 0).p + 1] = "\n"

\* the failure the entry e of g_conds is to end with, "" when it is none
ExpectedFailure(e) ==
  IF ~EndsDirective(e.mem, e.source)
    THEN IF e.directive = "PP_ELSE" THEN "Invalid #else directive"
         ELSE "Invalid #endif directive"
  ELSE IF e.before[1] = <<>>
    THEN IF e.directive = "PP_ELSE" THEN "#else without #if"
         ELSE "Unmatched #endif"
  ELSE IF e.directive = "PP_ELSE" /\ e.before[1][1].type = "PP_ELSE"
    THEN "#else after #else"
  ELSE ""

\* the entry e of g_conds is of a directive that did what it is to do
ElseEndifDone(e) ==
  /\ e.isfail => e.after = e.before
  /\ ExpectedFailure(e) # "" =>
       e.isfail /\ e.failstr = <<ExpectedFailure(e)>>
  /\ ExpectedFailure(e) = "" => ~e.isfail
  /\ (e.directive = "PP_ENDIF" /\ ~e.isfail) =>
       /\ e.before[1] # <<>>
       /\ e.after = [e.before EXCEPT ![1] = Tail(@)]

\* C25: a failing #else or #endif changes no conditional state: the one not
\* followed by the end of the directive latches `Invalid #else directive` or
\* `Invalid #endif directive`, #else with no open conditional `#else without
\* #if`, #else on a frame that is ELSE already `#else after #else`, #endif
\* with no open conditional `Unmatched #endif`, and each leaves every
\* conditional stack as it was; #endif that succeeds pops the top frame only
C25_FailedElseEndif ==
  \A k \in DOMAIN ctx.g_conds :
    ctx.g_conds[k].directive \in {"PP_ELSE", "PP_ENDIF"} =>
      ElseEndifDone(ctx.g_conds[k])

\* the step e of g_conds left the conditional stacks of the frames under the
\* top include frame as they were
BelowKept(e) ==
  /\ Len(e.after) = Len(e.before)
  /\ \A i \in 2..Len(e.before) : e.after[i] = e.before[i]

\* the step e of g_conds is a well-formed #else or #endif of an included
\* file that has no conditional of its own open
Unopened(e) ==
  /\ e.directive \in {"PP_ELSE", "PP_ENDIF"}
  /\ Len(e.before) >= 2
  /\ e.before[1] = <<>>
  /\ EndsDirective(e.mem, e.source)

\* the frame popped as p was pushed by the #include e
PoppedFrom(p, e) == e.child = p.frame

\* C26: conditional frames are scoped to their translation unit: no step of
\* an included file changes or pops a conditional of a frame under it; #else
\* and #endif of an included file with no conditional of its own fail with
\* `#else without #if` and `Unmatched #endif`; an included file starts with
\* no conditional; and when it is popped the conditional stacks of the frames
\* under it are what they were when it was pushed
C26_ConditionalScope ==
  /\ \A k \in DOMAIN ctx.g_conds :
       /\ BelowKept(ctx.g_conds[k])
       /\ Unopened(ctx.g_conds[k]) =>
            /\ ctx.g_conds[k].isfail
            /\ ctx.g_conds[k].failstr = <<ExpectedFailure(ctx.g_conds[k])>>
  /\ \A k \in DOMAIN ctx.g_includes : ctx.g_includes[k].conds[1] = <<>>
  /\ \A i \in DOMAIN ctx.g_popped : \A k \in DOMAIN ctx.g_includes :
       PoppedFrom(ctx.g_popped[i], ctx.g_includes[k]) =>
         Tail(ctx.g_popped[i].conds) = Tail(ctx.g_includes[k].conds)

\* an included file that met #endif with none of its own open, under a root
\* with an open conditional, was popped
C26_Witness ==
  /\ \E k \in DOMAIN ctx.g_conds :
       /\ Unopened(ctx.g_conds[k])
       /\ ctx.g_conds[k].directive = "PP_ENDIF"
       /\ ctx.g_conds[k].before[2] # <<>>
  /\ \E i \in DOMAIN ctx.g_popped : \E k \in DOMAIN ctx.g_includes :
       /\ PoppedFrom(ctx.g_popped[i], ctx.g_includes[k])
       /\ ctx.g_popped[i].conds[2] # <<>>

\* the turn e of g_inert changed nothing, and went round again only when it
\* was skipping
Inert(e) ==
  /\ e.conds[2] = e.conds[1]
  /\ e.table[2] = e.table[1]
  /\ e.fails[2] = e.fails[1]
  /\ e.again = e.skipping

\* the lexeme the top include frame of c holds next, read to the end of its
\* buffer
NextInBuffer(c) ==
  preprocessor_internal_lexer(
    [Top(c) EXCEPT !.bytes_left = Len(Top(c).mem) - Top(c).source])

\* offset of the first byte of the line that holds offset p of mem
LineStart(mem, p) ==
  CHOOSE q \in 0..p :
    /\ q = 0 \/ mem[q] = "\n"
    /\ \A r \in (q + 1)..p : mem[r] # "\n"

\* the line that holds offset p of mem begins with a directive the loop has
\* no case for
OnInertLine(mem, p) ==
  /\ SkipBlank(mem, LineStart(mem, p), Len(mem), 0).p < Len(mem)
  /\ Classify(mem, SkipBlank(mem, LineStart(mem, p), Len(mem), 0).p,
              Len(mem)).token \in Unimplemented

\* the last call returned a lexeme of the line of a directive the loop has
\* no case for, and a lexeme follows it on that line
DirectiveJustReturned ==
  /\ pc = "running"
  /\ ret.token \notin {"\n", "EOI", "PREPROCESSING_ERROR", "CRASH", "DIVERGED"}
  /\ ctx.include_stack # <<>>
  /\ ret.frame = Top(ctx).g_frame
  /\ OnInertLine(Top(ctx).mem, ret.start)
  /\ NextInBuffer(ctx).token \notin {"\n", "EOI", "INCOMPLETE_COMMENT"}

\* the call returned the lexeme lx
LexemeReturned(lx) ==
  /\ pc' = "running"
  /\ ret'.token = lx.token
  /\ ret'.start = lx.state.token
  /\ ret'.len = lx.state.source - lx.state.token

\* C27: the unimplemented directives are inert: on #define, #if or #elif the
\* loop pushes or pops no conditional, changes no binding of the define
\* table and latches no error; in a skipping region the directive is
\* discarded, outside one its lexeme is returned as it is, and the calls
\* after it return the rest of its line as ordinary lexemes
C27_UnimplementedInert ==
  /\ [](\A k \in DOMAIN ctx.g_inert : Inert(ctx.g_inert[k]))
  /\ [](pc = "running" /\ ret.token \in Unimplemented =>
          /\ ~ret.skipped
          /\ DirectiveToken(SubSeq(ret.bytes, 2, Len(ret.bytes))) = ret.token)
  /\ [][(DirectiveJustReturned /\ pc' # "ended")
         => LexemeReturned(NextInBuffer(ctx))]_vars

\* total of the lengths of the chunks
RECURSIVE ChunkBytes(_)
ChunkBytes(chunks) ==
  IF chunks = <<>> THEN 0 ELSE Len(Head(chunks)) + ChunkBytes(Tail(chunks))

\* the data of the appends ops, in their order
RECURSIVE AppendedData(_)
AppendedData(ops) ==
  IF ops = <<>> THEN <<>>
  ELSE Filled(Head(ops).byte, Head(ops).len) \o AppendedData(Tail(ops))

\* the chunks of a buffer are full but for the tail, which is not
WellChunked(buffer) ==
  /\ buffer.total_bytes = ChunkBytes(buffer.chunks)
  /\ \A i \in 1..(Len(buffer.chunks) - 1) : Len(buffer.chunks[i]) = BUFFER_LEN
  /\ Len(buffer.chunks[Len(buffer.chunks)]) < BUFFER_LEN

\* C28: after any sequence of successful add_to_buffer calls total_bytes is
\* the sum of the bytes of the chunks, every chunk but the tail is full and
\* the tail holds fewer than BUFFER_LEN bytes; flatten_buffer then gives the
\* data of all appends in their order, total_bytes bytes with the zero
\* behind them, also when an append ends on a chunk boundary or spans chunks
C28_ChunkedBuffer ==
  (pc = "buffer" /\ ret.ok) =>
    /\ WellChunked(preprocessData.buffer)
    /\ ret.op = "flatten" =>
         /\ ret.bytes = AppendedData(ret.ops)
         /\ Len(ret.bytes) = preprocessData.buffer.total_bytes

\* the buffer was flattened after an append that ended on a chunk boundary
\* and one that went over several chunks
C28_Witness ==
  /\ pc = "buffer" /\ ret.ok /\ ret.op = "flatten"
  /\ Len(ret.ops) = 3
  /\ ret.ops[1].len = BUFFER_LEN - 1
  /\ ret.ops[2].len = 1
  /\ ret.ops[3].len = 2 * BUFFER_LEN + 1
  /\ Len(preprocessData.buffer.chunks) = 4

\* the cache holds one item to a name and one to an address
OneItemEach ==
  \A i, j \in DOMAIN ctx.filename_cache :
    ( \/ ctx.filename_cache[i].filename = ctx.filename_cache[j].filename
      \/ ctx.filename_cache[i].addr = ctx.filename_cache[j].addr ) => i = j

\* every include frame's filename is null or the address of an item
FramesNamed ==
  \A i \in DOMAIN ctx.include_stack :
    \/ ctx.include_stack[i].filename = 0
    \/ \E k \in DOMAIN ctx.filename_cache :
         ctx.filename_cache[k].addr = ctx.include_stack[i].filename

\* a call for the null name gives the null pointer and leaves the cache, and
\* a call for a cached name gives the address of its item and makes none
AsCached ==
  /\ cache_filename(ctx, NULL).ptr = 0
  /\ cache_filename(ctx, NULL).ctx.filename_cache = ctx.filename_cache
  /\ \A k \in DOMAIN ctx.filename_cache :
       /\ cache_filename(ctx, ctx.filename_cache[k].filename).ptr
            = ctx.filename_cache[k].addr
       /\ cache_filename(ctx, ctx.filename_cache[k].filename).ctx.filename_cache
            = ctx.filename_cache

\* the items of the cache stay in it, as they are, until the context ends
ItemsKept ==
  (pc = "running" /\ pc' = "running") =>
    \A k \in DOMAIN ctx.filename_cache :
      \E m \in DOMAIN ctx'.filename_cache :
        ctx'.filename_cache[m] = ctx.filename_cache[k]

\* C29: filename intern identity: over any sequence of push_source, #line
\* and pop, any two calls of cache_filename with equal names give the same
\* pointer, the cache holds at most one item to a name, the null name gives
\* the null pointer, and no item is removed or changed before the context
\* ends, so that the filename of every include frame stays valid
C29_InternIdentity ==
  /\ [](\A i, j \in DOMAIN ctx.g_interns :
          ctx.g_interns[i].name = ctx.g_interns[j].name
            => ctx.g_interns[i].ptr = ctx.g_interns[j].ptr)
  /\ [](OneItemEach /\ FramesNamed /\ AsCached)
  /\ [][ItemsKept]_vars

====
